---- MODULE Spec2Model ----
(***************************************************************************)
(* A model of the register / memory allocation and code-emission core of   *)
(* the js-to-schematic compiler (src/src/compile).                          *)
(*                                                                         *)
(* The compiler is a recursive descent over the syntax tree that mutates   *)
(* module-level state (register file, symbol table, const-name set, scope  *)
(* stack, memory bump pointer) and appends assembly entries.  Every        *)
(* lowering function is modelled as an operator from a compiler state `c`  *)
(* to the compiler state after the call; a thrown Error is the field       *)
(* `err`, after which every further step of the same call chain is a       *)
(* no-op (the exception unwinds, the mutations made so far stay).  The     *)
(* register a call returns is the field `reg`; the registers a function   *)
(* holds in local constants (const addrReg = registers.next()) are the     *)
(* field `l`, keyed by the constant's name.                                *)
(*                                                                         *)
(* A statement that encloses a body (block, switch, loops) is lowered by   *)
(* two actions, the code before the recursive compileNode(body) call and   *)
(* the code after it; the statements of the body are the actions taken in  *)
(* between.  `frames` is the call stack of those open handlers with the    *)
(* locals their epilogues use.                                             *)
(***************************************************************************)
EXTENDS Integers, Sequences, FiniteSets, TLC

VARIABLES
  variables,            \* registers.ts: Map name -> VariableInfo
  registers,            \* registers.ts: Map generic register -> in use
  constNames,           \* registers.ts: names ever declared const
  currentScope,         \* registers.ts: id of the innermost scope
  scopeStack,           \* registers.ts: stack of scope ids
  nextMemoryAddress,    \* memoryAllocator: bump pointer
  labelCounter,         \* labels.ts: counter of unique labels
  breakHandlerStack,    \* CompilerContext: break targets
  continueHandlerStack, \* CompilerContext: continue targets
  errorHandlerStack,    \* CompilerContext: catch targets
  assembly,             \* entries emitted by the handler that ran last
  declaredLabels,       \* names of the label entries emitted so far, in order
  error,                \* "none", or the Error that aborted the compilation
  frames,               \* open enclosing handlers (the JS call stack)
  last,                 \* the handler that ran last: its input and pre-state
  stmts,                \* number of handler steps taken so far
  compilations          \* number of compilations started in this process

vars == <<variables, registers, constNames, currentScope, scopeStack,
          nextMemoryAddress, labelCounter, breakHandlerStack,
          continueHandlerStack, errorHandlerStack, assembly, declaredLabels,
          error, frames, last, stmts, compilations>>

-----------------------------------------------------------------------------
(* Bounds of the explored programs *)

MaxStatements == 3
MaxDepth == 2
MaxCompilations == 3

Names == {"x", "y"}
Functions == {"f"}
NoName == ""

-----------------------------------------------------------------------------
(* types/ISA.ts, ISA.ts: the register file *)

ZERO_REGISTER == "r0"
STACK_POINTER_REGISTER == "r15"

GENERIC_REGISTERS ==
  <<"r1", "r2", "r3", "r4", "r5", "r6", "r7",
    "r8", "r9", "r10", "r11", "r12", "r13", "r14">>

GenericSet == {GENERIC_REGISTERS[i] : i \in DOMAIN GENERIC_REGISTERS}

NoReg == ""

(* types/memory.ts *)
SP_START == 224
MAX_ARRAY_OFFSET == 8

isMemoryAddress(addr) == addr >= 0 /\ addr < SP_START

-----------------------------------------------------------------------------
(* Syntax trees (estree nodes), as far as the lowering reads them *)

Lit(v) == [type |-> "Literal", value |-> v]
Id(n) == [type |-> "Identifier", name |-> n]
Bin(op, l, r) ==
  [type |-> "BinaryExpression", operator |-> op, left |-> l, right |-> r]
Un(op, a) == [type |-> "UnaryExpression", operator |-> op, argument |-> a]
Call(f, args) == [type |-> "CallExpression", callee |-> f, arguments |-> args]
Member(obj, prop) ==
  [type |-> "MemberExpression", object |-> obj, property |-> prop]
ArrayExpr(elems) == [type |-> "ArrayExpression", elements |-> elems]

-----------------------------------------------------------------------------
(* Symbol table entries (types/memory.ts VariableInfo).  `reg` is the      *)
(* `value` of a register info; `value` is the address of a memory / array  *)
(* info or the literal of a const info.                                    *)

Absent ==
  [type |-> "none", reg |-> NoReg, value |-> 0, scope |-> 0, size |-> 0,
   base |-> 0, offset |-> 0]

RegisterInfo(r, s) ==
  [type |-> "register", reg |-> r, value |-> 0, scope |-> s, size |-> 1,
   base |-> 0, offset |-> 0]

ConstInfo(v, s) ==
  [type |-> "const", reg |-> NoReg, value |-> v, scope |-> s, size |-> 0,
   base |-> 0, offset |-> 0]

MemoryInfo(a, s) ==
  [type |-> "memory", reg |-> NoReg, value |-> a, scope |-> s, size |-> 1,
   base |-> 0, offset |-> 0]

ArrayInfo(a, n, s, b, o) ==
  [type |-> "array", reg |-> NoReg, value |-> a, scope |-> s, size |-> n,
   base |-> b, offset |-> o]

-----------------------------------------------------------------------------
(* Assembly entries *)

Instr(m, ops) == [kind |-> "instruction", op |-> m, operands |-> ops]
LabelEntry(l) == [kind |-> "label", op |-> "", operands |-> <<l>>]
DefineEntry(n, v) == [kind |-> "define", op |-> "", operands |-> <<n, ToString(v)>>]

-----------------------------------------------------------------------------
(* The compiler state threaded through the lowering operators *)

Ok(c) == c.err = "none"

Throw(c, e) == IF Ok(c) THEN [c EXCEPT !.err = e] ELSE c

NoLocals == [n \in {} |-> NoReg]

(* const name = <the register the call just returned> *)
Local(c, name) ==
  IF Ok(c)
  THEN [c EXCEPT !.l = [n \in DOMAIN c.l \cup {name} |->
                          IF n = name THEN c.reg ELSE c.l[n]]]
  ELSE c

(* an operand: the register held by a local constant, or the text itself *)
Value(c, op) == IF op \in DOMAIN c.l THEN c.l[op] ELSE op

(* return to the caller `c`: its local constants are its own again *)
Leave(c, r) == [r EXCEPT !.l = c.l]

SetReg(c, r) == IF Ok(c) THEN [c EXCEPT !.reg = Value(c, r)] ELSE c

(* ISA.ts: the number of parameters of an instruction's toAssembly *)
Arity(m) ==
  CASE m \in {"NOOP", "HALT", "RET"} -> 0
    [] m \in {"JUMP", "CALL", "CLEAR", "INC", "DEC", "BEQ", "BNE", "BGE", "BLT"} -> 1
    [] m \in {"RSHIFT", "LDI", "ADDI", "SUBI", "BRANCH", "MOVE", "CMP"} -> 2
    [] m \in {"ADD", "SUB", "NOR", "AND", "XOR", "LOAD", "STORE"} -> 3

(* instruction.toAssembly(...operands): the text holds as many operands as *)
(* toAssembly has parameters; an operand the caller gave beyond them is    *)
(* dropped, one it did not give is printed as "undefined"                  *)
toAssembly(m, ops) ==
  [i \in 1..Arity(m) |-> IF i <= Len(ops) THEN ops[i] ELSE "undefined"]

emitInstruction(c, m, ops) ==
  IF Ok(c)
  THEN [c EXCEPT !.out =
          Append(@, Instr(m, toAssembly(m, [i \in DOMAIN ops |-> Value(c, ops[i])])))]
  ELSE c

emitLabel(c, l) ==
  IF Ok(c) THEN [c EXCEPT !.out = Append(@, LabelEntry(l))] ELSE c

emitDefine(c, n, v) ==
  IF Ok(c) THEN [c EXCEPT !.out = Append(@, DefineEntry(n, v))] ELSE c

-----------------------------------------------------------------------------
(* compile/memory/registers.ts *)

Info(c, key) ==
  IF key \in DOMAIN c.variables THEN c.variables[key] ELSE Absent

has(c, key) == key # NoName /\ Info(c, key).type # "none"

wasEverConst(c, key) == key # NoName /\ key \in c.constNames

(* isConst that sees only the consts of the current scope *)
isConstInCurrentScope(c, key) ==
  Info(c, key).type = "const" /\ Info(c, key).scope = c.currentScope

isConst(c, key) == Info(c, key).type = "const"

isArray(c, key) == Info(c, key).type = "array"

FirstFree(c) ==
  LET free == {i \in DOMAIN GENERIC_REGISTERS : ~c.registers[GENERIC_REGISTERS[i]]}
  IN  CHOOSE i \in free : \A j \in free : i <= j

next(c) ==
  IF ~Ok(c) THEN c
  ELSE IF \A r \in GenericSet : c.registers[r]
       THEN Throw(c, "OutOfRegisters")
       ELSE LET r == GENERIC_REGISTERS[FirstFree(c)]
            IN  [c EXCEPT !.registers[r] = TRUE, !.reg = r]

free(c, r) ==
  IF Ok(c) /\ Value(c, r) \in GenericSet
  THEN [c EXCEPT !.registers[Value(c, r)] = FALSE]
  ELSE c

(* get without the wasEverConst test: every absent name gets a register *)
getAllocating(c, key) ==
  IF ~Ok(c) THEN c
  ELSE IF ~has(c, key) THEN next(c)
       ELSE IF Info(c, key).type \in {"array", "const", "memory"}
            THEN Throw(c, "NotARegister")
       ELSE [c EXCEPT !.reg = Info(c, key).reg]

get(c, key) ==
  IF ~Ok(c) THEN c
  ELSE IF ~has(c, key)
       THEN IF wasEverConst(c, key) THEN Throw(c, "UnknownIdentifier")
            ELSE next(c)
       ELSE IF Info(c, key).type = "array" THEN Throw(c, "NotARegister")
       ELSE IF Info(c, key).type \in {"const", "memory"}
            THEN Throw(c, "NotARegister")
       ELSE [c EXCEPT !.reg = Info(c, key).reg]

(* set(key, value?): value = NoReg stands for an absent value *)
bind(c, key) ==
  IF Ok(c)
  THEN [c EXCEPT !.variables[key] = RegisterInfo(c.reg, c.currentScope)]
  ELSE c

set(c, key, value) ==
  IF ~Ok(c) THEN c
  ELSE IF has(c, key) THEN get(c, key)
  ELSE bind(IF value = NoReg THEN next(c) ELSE SetReg(c, value), key)

setConst(c, key, value) ==
  IF ~Ok(c) THEN c
  ELSE IF has(c, key) THEN Throw(c, "DuplicateBinding")
  ELSE [c EXCEPT !.constNames = @ \cup {key},
                 !.variables[key] = ConstInfo(value, c.currentScope)]

enterScope(c) ==
  IF ~Ok(c) THEN c
  ELSE [c EXCEPT !.currentScope = c.currentScope + 1,
                 !.scopeStack = Append(@, c.currentScope + 1)]

(* exitScope without the call of free: the bindings go, the registers stay *)
exitScopeKeepingRegisters(c) ==
  IF ~Ok(c) THEN c
  ELSE IF c.scopeStack = <<>> THEN Throw(c, "NoActiveScope")
  ELSE LET exitingScope == c.scopeStack[Len(c.scopeStack)]
           stack == SubSeq(c.scopeStack, 1, Len(c.scopeStack) - 1)
       IN  [c EXCEPT
             !.scopeStack = stack,
             !.variables = [k \in DOMAIN c.variables |->
                              IF c.variables[k].type # "none"
                                 /\ c.variables[k].scope = exitingScope
                              THEN Absent ELSE c.variables[k]],
             !.currentScope = IF stack = <<>> THEN 0 ELSE stack[Len(stack)]]

exitScope(c) ==
  IF ~Ok(c) THEN c
  ELSE IF c.scopeStack = <<>> THEN Throw(c, "NoActiveScope")
  ELSE LET exitingScope == c.scopeStack[Len(c.scopeStack)]
           stack == SubSeq(c.scopeStack, 1, Len(c.scopeStack) - 1)
           gone == {k \in DOMAIN c.variables :
                      c.variables[k].type # "none"
                      /\ c.variables[k].scope = exitingScope}
           freed == {c.variables[k].reg : k \in {g \in gone :
                      c.variables[g].type = "register"}}
       IN  [c EXCEPT
             !.scopeStack = stack,
             !.registers = [r \in GenericSet |->
                              IF r \in freed THEN FALSE ELSE c.registers[r]],
             !.variables = [k \in DOMAIN c.variables |->
                              IF k \in gone THEN Absent ELSE c.variables[k]],
             !.currentScope = IF stack = <<>> THEN 0 ELSE stack[Len(stack)]]

(* memoryAllocator *)
allocateMemoryAddress(c, size) ==
  IF ~Ok(c) THEN c
  ELSE IF ~isMemoryAddress(c.nextMemoryAddress + size)
       THEN Throw(c, "OutOfMemory")
       ELSE [c EXCEPT !.nextMemoryAddress = c.nextMemoryAddress + size]

Max(a, b) == IF a >= b THEN a ELSE b

(* setArray with the base moved one cell too far *)
setArrayShortOffset(c, key, length) ==
  IF ~Ok(c) THEN c
  ELSE IF has(c, key) THEN Throw(c, "DuplicateBinding")
  ELSE LET address == c.nextMemoryAddress
           offset == Max(0, length - MAX_ARRAY_OFFSET)
       IN  IF ~isMemoryAddress(address + length) THEN Throw(c, "OutOfMemory")
           ELSE [c EXCEPT !.nextMemoryAddress = address + length,
                          !.variables[key] =
                            ArrayInfo(address, length, c.currentScope,
                                      address + offset, offset)]

setArray(c, key, length) ==
  IF ~Ok(c) THEN c
  ELSE IF has(c, key) THEN Throw(c, "DuplicateBinding")
  ELSE LET address == c.nextMemoryAddress
           c1 == allocateMemoryAddress(c, length)
           offset == Max(0, length - MAX_ARRAY_OFFSET - 1)
           base == address + offset
       IN  IF ~Ok(c1) THEN c1
           ELSE IF ~isMemoryAddress(base) THEN Throw(c1, "InvalidAddress")
           ELSE [c1 EXCEPT !.variables[key] =
                   ArrayInfo(address, length, c.currentScope, base, offset)]

setMemory(c, key) ==
  IF ~Ok(c) THEN c
  ELSE IF has(c, key) THEN Throw(c, "DuplicateBinding")
  ELSE LET address == c.nextMemoryAddress
           c1 == allocateMemoryAddress(c, 1)
       IN  IF ~Ok(c1) THEN c1
           ELSE [c1 EXCEPT !.variables[key] = MemoryInfo(address, c.currentScope)]

-----------------------------------------------------------------------------
(* compile/utils/labels.ts: createLabel and the label generator.  The      *)
(* generator returns the label set and post-increments the counter when    *)
(* the label is unique.                                                    *)

LabelKey(c, type, unique) ==
  "." \o type \o (IF unique THEN "_" \o ToString(c.labelCounter) ELSE "")

createLabel(c, type, unique) ==
  LET key == LabelKey(c, type, unique)
  IN  [start |-> key \o "_start", after |-> key \o "_after",
       body |-> key \o "_body", update |-> key \o "_update",
       case |-> key \o "_case"]

newLabel(c, unique) ==
  IF Ok(c) /\ unique THEN [c EXCEPT !.labelCounter = @ + 1] ELSE c

(* CompilerContext.ts newLabel(text, unique): { key, startLabel, endLabel } *)
ContextKey(c, text, unique) ==
  "." \o (IF unique THEN ToString(c.labelCounter) \o "_" ELSE "") \o text

contextLabel(c, text, unique) ==
  LET key == ContextKey(c, text, unique)
  IN  [key |-> key, startLabel |-> key \o "_start", endLabel |-> key \o "_end"]

-----------------------------------------------------------------------------
(* compile/modules/expression/compileValue.ts *)

RECURSIVE compileValue(_, _, _)
RECURSIVE compileArguments(_, _, _)

compileLiteralValue(c, node, varName) ==
  IF node.value = 0 /\ varName = NoName
  THEN SetReg(c, ZERO_REGISTER)
  ELSE emitInstruction(Local(next(c), "reg"), "LDI", <<"reg", ToString(node.value)>>)

compileIdentifierValue(c, node, varName) ==
  IF isConst(c, node.name)
  THEN emitInstruction(Local(next(c), "reg"), "LDI", <<"reg", node.name>>)
  ELSE get(c, node.name)

(* arr[i], arr[i + 1]: the address is formed at run time from `start` *)
loadElement(c, start) ==
  LET c1 == Local(next(c), "addrReg")
      c2 == emitInstruction(c1, "LDI", <<"addrReg", ToString(start)>>)
      c3 == Local(next(c2), "finalAddrReg")
      c4 == emitInstruction(c3, "ADD", <<"addrReg", "offsetReg", "finalAddrReg">>)
      c5 == Local(next(c4), "resultReg")
  IN  emitInstruction(c5, "LOAD", <<"finalAddrReg", "resultReg">>)

compileMemberValue(c, node, varName) ==
  LET arrayInfo == Info(c, node.object)
      property == node.property
  IN
  IF arrayInfo.type # "array" THEN Throw(c, "NotAnArray")
  ELSE IF property.type = "Identifier" /\ property.name = "length"
  THEN emitInstruction(Local(next(c), "lengthReg"), "LDI",
                       <<"lengthReg", ToString(arrayInfo.size)>>)
  ELSE IF property.type = "Literal"
  THEN LET index == property.value
       IN  IF index < 0 \/ index >= arrayInfo.size
           THEN Throw(c, "OutOfBoundsArrayAccess")
           ELSE LET address == arrayInfo.value + index
                    c1 == Local(next(c), "addrReg")
                    c2 == emitInstruction(c1, "LDI", <<"addrReg", ToString(address)>>)
                    c3 == Local(next(c2), "resultReg")
                    c4 == emitInstruction(c3, "LOAD", <<"addrReg", "resultReg">>)
                IN  SetReg(free(c4, "addrReg"), "resultReg")
  ELSE IF property.type = "Identifier"
  THEN LET c1 == Local(get(c, property.name), "offsetReg")
           c2 == loadElement(c1, arrayInfo.base)
       IN  SetReg(free(free(c2, "addrReg"), "finalAddrReg"), "resultReg")
  ELSE LET c1 == Local(compileValue(c, property, NoName), "offsetReg")
           c2 == loadElement(c1, arrayInfo.value)
       IN  SetReg(free(free(free(c2, "offsetReg"), "addrReg"), "finalAddrReg"),
                  "resultReg")

(* identifier op literal, `leftReg` holding the identifier's register *)
ImmediateOp(c, mnemonic, node, canModifyInPlace) ==
  IF canModifyInPlace
  THEN SetReg(emitInstruction(c, mnemonic, <<"leftReg", ToString(node.right.value)>>),
              "leftReg")
  ELSE LET c1 == Local(next(c), "dest")
           c2 == emitInstruction(c1, "MOVE", <<"leftReg", "dest">>)
           c3 == emitInstruction(c2, mnemonic, <<"dest", ToString(node.right.value)>>)
       IN  SetReg(c3, "dest")

RegisterLiteral(c, node, canModifyInPlace) ==
  CASE node.operator = "+" -> ImmediateOp(c, "ADDI", node, canModifyInPlace)
    [] node.operator = "-" -> ImmediateOp(c, "SUBI", node, canModifyInPlace)
    [] OTHER -> Throw(c, "UnsupportedOperator")

(* the general case once leftReg, rightReg and dest are known *)
RegisterRegister(c, node) ==
  LET c1 == CASE node.operator = "+" ->
                    emitInstruction(c, "ADD", <<"leftReg", "rightReg", "dest">>)
               [] node.operator = "-" ->
                    emitInstruction(c, "SUB", <<"leftReg", "rightReg", "dest">>)
               [] OTHER -> Throw(c, "UnsupportedOperator")
      c2 == IF Value(c, "leftReg") # Value(c, "dest") /\ node.left.type # "Identifier"
            THEN free(c1, "leftReg") ELSE c1
      c3 == IF Value(c, "rightReg") # Value(c, "dest") /\ node.right.type # "Identifier"
            THEN free(c2, "rightReg") ELSE c2
  IN  SetReg(c3, "dest")

compileBinaryValue(c, node, varName) ==
  LET left == node.left
      right == node.right
  IN
  IF left.type = "Identifier" /\ right.type = "Literal"
  THEN RegisterLiteral(Local(compileValue(c, left, NoName), "leftReg"), node,
                       varName = left.name)
  ELSE IF left.type = "Literal" /\ right.type = "Identifier"
  THEN CASE node.operator = "+" ->
              LET c1 == Local(compileValue(c, right, NoName), "rightReg")
              IN  SetReg(emitInstruction(c1, "ADDI",
                           <<"rightReg", ToString(left.value)>>), "rightReg")
         [] node.operator = "-" ->
              LET c1 == Local(compileValue(c, left, NoName), "leftReg")
                  c2 == Local(compileValue(c1, right, NoName), "rightReg")
                  c3 == Local(next(c2), "dest")
                  c4 == emitInstruction(c3, "SUB", <<"leftReg", "rightReg", "dest">>)
              IN  SetReg(free(c4, "leftReg"), "dest")
         [] OTHER -> Throw(c, "UnsupportedOperator")
  ELSE LET c1 == Local(compileValue(c, left, NoName), "leftReg")
           c2 == Local(compileValue(c1, right, NoName), "rightReg")
           c3 == Local(get(c2, varName), "dest")
       IN  RegisterRegister(c3, node)

UnaryOp(c, node) ==
  CASE node.operator = "-" ->
         SetReg(emitInstruction(
                  emitInstruction(c, "LDI", <<"resultReg", "0">>),
                  "SUB", <<"resultReg", "operandReg", "resultReg">>), "resultReg")
    [] node.operator = "!" ->
         SetReg(emitInstruction(
                  emitInstruction(c, "CMP", <<"operandReg", ZERO_REGISTER>>),
                  "LDI", <<"resultReg", "1">>), "resultReg")
    [] OTHER -> Throw(c, "UnsupportedOperator")

compileUnaryValue(c, node, varName) ==
  LET c1 == Local(compileValue(c, node.argument, NoName), "operandReg")
      c2 == Local(next(c1), "resultReg")
  IN  UnaryOp(c2, node)

(* expression/callExpression.ts: the loop over the arguments from index i *)
storeArgument(c, arg, i) ==
  LET operands == IF i - 1 > 0
                  THEN <<STACK_POINTER_REGISTER, "argReg", "-" \o ToString(i - 1)>>
                  ELSE <<STACK_POINTER_REGISTER, "argReg">>
      c1 == emitInstruction(c, "STORE", operands)
  IN  IF arg.type # "Identifier" THEN free(c1, "argReg") ELSE c1

compileArguments(c, args, i) ==
  IF i > Len(args) THEN c
  ELSE compileArguments(
         storeArgument(Local(compileValue(c, args[i], NoName), "argReg"), args[i], i),
         args, i + 1)

compileCallExpression(c, expression) ==
  LET labels == createLabel(c, expression.callee, FALSE)
      c1 == compileArguments(c, expression.arguments, 1)
  IN  Leave(c, emitInstruction(newLabel(c1, FALSE), "CALL", <<labels.start>>))

compileCallExpressionWithReturn(c, expression) ==
  LET c1 == compileCallExpression(c, expression)
      c2 == Local(next(c1), "resultReg")
  IN  Leave(c, SetReg(emitInstruction(c2, "LOAD",
                        <<STACK_POINTER_REGISTER, "resultReg", "1">>), "resultReg"))

compileValue(c, node, varName) ==
  IF ~Ok(c) THEN c
  ELSE Leave(c,
         CASE node.type = "CallExpression" ->
                compileCallExpressionWithReturn(c, node)
           [] node.type = "MemberExpression" -> compileMemberValue(c, node, varName)
           [] node.type = "Identifier" -> compileIdentifierValue(c, node, varName)
           [] node.type = "Literal" -> compileLiteralValue(c, node, varName)
           [] node.type = "BinaryExpression" -> compileBinaryValue(c, node, varName)
           [] node.type = "UnaryExpression" -> compileUnaryValue(c, node, varName)
           [] OTHER -> Throw(c, "UnsupportedNode"))

-----------------------------------------------------------------------------
(* compile/modules/expression/assignmentExpression.ts *)

RECURSIVE storeElements(_, _, _, _)

(* if (tempReg !== valueReg) { MOVE tempReg valueReg; free(tempReg) } *)
moveTemp(c) ==
  IF Value(c, "tempReg") # Value(c, "valueReg")
  THEN free(emitInstruction(c, "MOVE", <<"tempReg", "valueReg">>), "tempReg")
  ELSE c

(* one turn of the forEach over the elements of an array initialiser *)
storeElement(c, name, element, index) ==
  LET c1 == IF element.type = "Identifier"
            THEN emitInstruction(Local(get(c, element.name), "srcReg"), "MOVE",
                                 <<"srcReg", "valueReg">>)
            ELSE IF element.type = "Literal"
            THEN emitInstruction(c, "LDI", <<"valueReg", ToString(element.value)>>)
            ELSE moveTemp(Local(compileValue(c, element, NoName), "tempReg"))
  IN  emitInstruction(c1, "STORE",
        <<"baseReg", "valueReg", ToString(index - Info(c, name).offset)>>)

storeElements(c, name, elements, i) ==
  IF i > Len(elements) \/ ~Ok(c) THEN c
  ELSE storeElements(storeElement(c, name, elements[i], i - 1), name, elements, i + 1)

loadBase(c, name) ==
  emitInstruction(c, "LDI", <<"baseReg", ToString(Info(c, name).base)>>)

(* registers.set(name, compileValue(expression, name)) *)
setValue(c, name) == IF Ok(c) THEN set(c, name, c.reg) ELSE c

compileAssignmentExpression(c, expression, name) ==
  IF ~Ok(c) THEN c
  ELSE CASE expression.type = "ArrayExpression" ->
              LET c1 == setArray(c, name, Len(expression.elements))
                  c2 == loadBase(Local(next(c1), "baseReg"), name)
                  c3 == Local(next(c2), "valueReg")
                  c4 == storeElements(c3, name, expression.elements, 1)
              IN  free(free(c4, "baseReg"), "valueReg")
         [] expression.type = "CallExpression" ->
              compileCallExpressionWithReturn(c, expression)
         [] expression.type = "Identifier" ->
              IF isConst(c, expression.name)
              THEN emitInstruction(Local(set(c, name, NoReg), "reg"), "LDI",
                                   <<"reg", expression.name>>)
              ELSE LET c1 == Local(get(c, expression.name), "srcReg")
                       c2 == Local(set(c1, name, NoReg), "destReg")
                   IN  emitInstruction(c2, "MOVE", <<"srcReg", "destReg">>)
         [] OTHER -> setValue(compileValue(c, expression, name), name)

-----------------------------------------------------------------------------
(* statement/declaration/variableDeclaration.ts *)

compileConstDeclaration(c, name, init) ==
  IF ~Ok(c) THEN c
  ELSE IF init.type # "Literal" THEN Throw(c, "ConstNotLiteral")
  ELSE emitDefine(setConst(c, name, init.value), name, init.value)

compileVariableDeclaration(c, node) ==
  IF node.kind = "const"
  THEN compileConstDeclaration(c, node.id, node.init)
  ELSE compileAssignmentExpression(c, node.init, node.id)

(* expression/updateExpression.ts *)
compileUpdateExpression(c, node) ==
  LET c1 == Local(get(c, node.argument), "reg")
  IN  CASE node.operator = "++" -> emitInstruction(c1, "ADDI", <<"reg", "1">>)
        [] node.operator = "--" -> emitInstruction(c1, "SUBI", <<"reg", "1">>)
        [] OTHER -> Throw(c1, "UnsupportedOperator")

-----------------------------------------------------------------------------
(* statement/expressionStatement.ts *)

(* registers.free(reg) unless the node it came from is an identifier *)
freeTemporary(c, node, reg) ==
  IF node.type # "Identifier" THEN free(c, reg) ELSE c

(* arr[i] = value with a run-time index held in indexReg *)
storeAt(c, start) ==
  LET c1 == Local(next(c), "addrReg")
      c2 == emitInstruction(c1, "LDI", <<"addrReg", ToString(start)>>)
      c3 == Local(next(c2), "finalAddrReg")
      c4 == emitInstruction(c3, "ADD", <<"addrReg", "indexReg", "finalAddrReg">>)
  IN  emitInstruction(c4, "STORE", <<"finalAddrReg", "valueReg">>)

(* storeMember accepting the index that equals the length *)
storeMemberPastEnd(c, arrayInfo, property) ==
  IF property.type = "Literal"
  THEN LET index == property.value
       IN  IF index < 0 \/ index > arrayInfo.size
           THEN Throw(c, "OutOfBoundsArrayAccess")
           ELSE LET address == arrayInfo.value + index
                    c1 == Local(next(c), "addrReg")
                    c2 == emitInstruction(c1, "LDI", <<"addrReg", ToString(address)>>)
                    c3 == emitInstruction(c2, "STORE", <<"addrReg", "valueReg">>)
                IN  free(c3, "addrReg")
  ELSE IF property.type = "Identifier"
  THEN LET c1 == Local(get(c, property.name), "indexReg")
           c2 == storeAt(c1, arrayInfo.value)
       IN  free(free(c2, "addrReg"), "finalAddrReg")
  ELSE LET c1 == Local(compileValue(c, property, NoName), "indexReg")
           c2 == storeAt(c1, arrayInfo.value)
       IN  free(free(free(c2, "indexReg"), "addrReg"), "finalAddrReg")

storeMember(c, arrayInfo, property) ==
  IF property.type = "Literal"
  THEN LET index == property.value
       IN  IF index < 0 \/ index >= arrayInfo.size
           THEN Throw(c, "OutOfBoundsArrayAccess")
           ELSE LET address == arrayInfo.value + index
                    c1 == Local(next(c), "addrReg")
                    c2 == emitInstruction(c1, "LDI", <<"addrReg", ToString(address)>>)
                    c3 == emitInstruction(c2, "STORE", <<"addrReg", "valueReg">>)
                IN  free(c3, "addrReg")
  ELSE IF property.type = "Identifier"
  THEN LET c1 == Local(get(c, property.name), "indexReg")
           c2 == storeAt(c1, arrayInfo.value)
       IN  free(free(c2, "addrReg"), "finalAddrReg")
  ELSE LET c1 == Local(compileValue(c, property, NoName), "indexReg")
           c2 == storeAt(c1, arrayInfo.value)
       IN  free(free(free(c2, "indexReg"), "addrReg"), "finalAddrReg")

(* arr[i] = value *)
compileMemberAssignment(c, left, right) ==
  LET arrayInfo == Info(c, left.object)
  IN  IF arrayInfo.type # "array" THEN Throw(c, "NotAnArray")
      ELSE LET c1 == Local(compileValue(c, right, NoName), "valueReg")
               c2 == storeMember(c1, arrayInfo, left.property)
           IN  freeTemporary(c2, right, "valueReg")

(* the switch over the operator of x += e, x -= e, and the final free *)
compoundOp(c, operator, right) ==
  LET c1 == CASE operator = "+=" ->
                   IF right.type = "Literal"
                   THEN emitInstruction(c, "ADDI", <<"varReg", ToString(right.value)>>)
                   ELSE emitInstruction(c, "ADD", <<"varReg", "rightReg", "varReg">>)
              [] operator = "-=" ->
                   IF right.type = "Literal"
                   THEN emitInstruction(c, "SUBI", <<"varReg", ToString(right.value)>>)
                   ELSE emitInstruction(c, "SUB", <<"varReg", "rightReg", "varReg">>)
              [] OTHER -> Throw(c, "UnsupportedOperator")
  IN  IF Value(c, "rightReg") # Value(c, "varReg") THEN free(c1, "rightReg") ELSE c1

compileCompoundAssignment(c, left, operator, right) ==
  IF ~has(c, left.name) THEN Throw(c, "UnknownIdentifier")
  ELSE
  LET c1 == Local(IF right.type = "CallExpression"
                  THEN compileCallExpressionWithReturn(c, right)
                  ELSE compileValue(c, right, NoName), "rightReg")
      c2 == Local(get(c1, left.name), "varReg")
  IN  compoundOp(c2, operator, right)

compileExpressionStatement(c, node) ==
  LET e == node.expression
  IN  CASE e.type = "AssignmentExpression" ->
             IF e.left.type = "MemberExpression"
             THEN compileMemberAssignment(c, e.left, e.right)
             ELSE IF isConst(c, e.left.name)
             THEN Throw(c, "ConstReassignment")
             ELSE IF e.operator # "="
             THEN compileCompoundAssignment(c, e.left, e.operator, e.right)
             ELSE compileAssignmentExpression(c, e.right, e.left.name)
        [] e.type = "CallExpression" -> compileCallExpression(c, e)
        [] e.type = "UpdateExpression" -> compileUpdateExpression(c, e)
        [] OTHER -> Throw(c, "UnsupportedNode")

(* statement/returnStatement.ts; node.argument = NoArgument for a bare return *)
NoArgument == [type |-> "none"]

compileReturnStatement(c, node) ==
  LET c1 == IF node.argument.type # "none"
            THEN emitInstruction(
                   Local(compileValue(c, node.argument, NoName), "valueReg"),
                   "STORE", <<STACK_POINTER_REGISTER, "valueReg", "1">>)
            ELSE c
  IN  emitInstruction(c1, "RET", <<>>)

(* statement/error/throwStatement.ts *)
(* the throw lowered as if no catch target were ever open *)
compileThrowStatementUncaught(c, node) == emitInstruction(c, "HALT", <<>>)

compileThrowStatement(c, node) ==
  IF c.errorHandlerStack = <<>>
  THEN emitInstruction(c, "HALT", <<>>)
  ELSE LET catchLabel == c.errorHandlerStack[Len(c.errorHandlerStack)]
           c1 == Local(compileValue(c, node.argument, NoName), "errorValueReg")
           c2 == emitInstruction(c1, "STORE",
                   <<STACK_POINTER_REGISTER, "errorValueReg", "1">>)
       IN  emitInstruction(c2, "JUMP", <<catchLabel>>)

(* Stack.ts peek(): throws on an empty stack *)
peek(c, stack) ==
  IF stack = <<>> THEN Throw(c, "EmptyHandlerStack") ELSE c

Top(stack) == IF stack = <<>> THEN "" ELSE stack[Len(stack)]

Pop(stack) == SubSeq(stack, 1, Len(stack) - 1)

(* continue reading the handler stack from its bottom: the outermost loop *)
compileContinueStatementOutermost(c) ==
  emitInstruction(peek(c, c.continueHandlerStack), "JUMP",
                  <<IF c.continueHandlerStack = <<>> THEN ""
                    ELSE c.continueHandlerStack[1]>>)

(* statement/breakStatement.ts, statement/continueStatement.ts *)
compileBreakStatement(c) ==
  emitInstruction(peek(c, c.breakHandlerStack), "JUMP", <<Top(c.breakHandlerStack)>>)

compileContinueStatement(c) ==
  emitInstruction(peek(c, c.continueHandlerStack), "JUMP",
                  <<Top(c.continueHandlerStack)>>)

-----------------------------------------------------------------------------
(* expression/binaryExpression.ts: a comparison feeding a branch *)

(* the rewriting with the operator replaced and the operands left in place *)
beforeCompileKeepingOrder(node) ==
  CASE node.operator \in {"===", "=="} ->
         [left |-> node.left, right |-> node.right, operator |-> "==", ok |-> TRUE]
    [] node.operator \in {"!==", "!="} ->
         [left |-> node.left, right |-> node.right, operator |-> "!=", ok |-> TRUE]
    [] node.operator \in {"<=", ">="} ->
         [left |-> node.left, right |-> node.right, operator |-> ">=", ok |-> TRUE]
    [] node.operator \in {">", "<"} ->
         [left |-> node.left, right |-> node.right, operator |-> "<", ok |-> TRUE]
    [] OTHER ->
         [left |-> node.left, right |-> node.right, operator |-> node.operator,
          ok |-> FALSE]

beforeCompile(node) ==
  CASE node.operator \in {"===", "=="} ->
         [left |-> node.left, right |-> node.right, operator |-> "==", ok |-> TRUE]
    [] node.operator \in {"!==", "!="} ->
         [left |-> node.left, right |-> node.right, operator |-> "!=", ok |-> TRUE]
    [] node.operator = "<=" ->
         [left |-> node.right, right |-> node.left, operator |-> ">=", ok |-> TRUE]
    [] node.operator = ">=" ->
         [left |-> node.left, right |-> node.right, operator |-> ">=", ok |-> TRUE]
    [] node.operator = ">" ->
         [left |-> node.right, right |-> node.left, operator |-> "<", ok |-> TRUE]
    [] node.operator = "<" ->
         [left |-> node.left, right |-> node.right, operator |-> "<", ok |-> TRUE]
    [] OTHER ->
         [left |-> node.left, right |-> node.right, operator |-> node.operator,
          ok |-> FALSE]

compileBinaryExpression(c, node, trueLabel, falseLabel) ==
  LET t == beforeCompile(node)
  IN  IF ~t.ok THEN Throw(c, "UnsupportedOperator")
      ELSE LET c1 == Local(compileValue(c, t.left, NoName), "leftReg")
               c2 == Local(compileValue(c1, t.right, NoName), "rightReg")
               c3 == emitInstruction(c2, "CMP", <<"leftReg", "rightReg">>)
               c4 == emitInstruction(c3, "BRANCH", <<t.operator, trueLabel>>)
               c5 == emitInstruction(c4, "JUMP", <<falseLabel>>)
               c6 == freeTemporary(c5, t.left, "leftReg")
           IN  Leave(c, freeTemporary(c6, t.right, "rightReg"))

compileTest(c, test, trueLabel, falseLabel) ==
  IF test.type = "BinaryExpression"
  THEN compileBinaryExpression(c, test, trueLabel, falseLabel)
  ELSE c

-----------------------------------------------------------------------------
(* Handlers that enclose a body.  Each is split at its compileNode(body)   *)
(* call: XBegin is the code before it and returns the state with the frame *)
(* of locals, XEnd the code after it.                                      *)

push(c, stackName, label) ==
  IF ~Ok(c) THEN c
  ELSE CASE stackName = "break" -> [c EXCEPT !.breakHandlerStack = Append(@, label)]
         [] stackName = "continue" ->
              [c EXCEPT !.continueHandlerStack = Append(@, label)]
         [] stackName = "error" -> [c EXCEPT !.errorHandlerStack = Append(@, label)]

pop(c, stackName) ==
  IF ~Ok(c) THEN c
  ELSE CASE stackName = "break" ->
              IF c.breakHandlerStack = <<>> THEN Throw(c, "EmptyHandlerStack")
              ELSE [c EXCEPT !.breakHandlerStack = Pop(@)]
         [] stackName = "continue" ->
              IF c.continueHandlerStack = <<>> THEN Throw(c, "EmptyHandlerStack")
              ELSE [c EXCEPT !.continueHandlerStack = Pop(@)]
         [] stackName = "error" ->
              IF c.errorHandlerStack = <<>> THEN Throw(c, "EmptyHandlerStack")
              ELSE [c EXCEPT !.errorHandlerStack = Pop(@)]

Frame(kind, regs, labels, pending) ==
  [kind |-> kind, regs |-> regs, labels |-> labels, pending |-> pending,
   cases |-> pending, test |-> NoArgument, before |-> NoArgument]

(* the handler is suspended at its body: its locals go to its frame *)
Suspend(c, frame) ==
  [c |-> c,
   frame |-> [frame EXCEPT !.regs = [i \in DOMAIN frame.regs |->
                                       Value(c, frame.regs[i])]]]

(* statement/blockStatement.ts *)
compileBlockBegin(c) == Suspend(enterScope(c), Frame("block", <<>>, <<>>, 0))

compileBlockEnd(c, frame) == exitScope(c)

(* statement/declaration/functionDeclaration.ts: the labels are named after *)
(* the function and take no counter; the body is a block statement, whose  *)
(* scope opens after the parameters are bound.                             *)
RECURSIVE loadParams(_, _, _)

loadParams(c, params, index) ==
  IF index > Len(params) THEN c
  ELSE LET c1 == Local(set(c, params[index], NoReg), "paramReg")
           operands == IF index > 1
                       THEN <<STACK_POINTER_REGISTER, "paramReg",
                              "-" \o ToString(index - 1)>>
                       ELSE <<STACK_POINTER_REGISTER, "paramReg">>
       IN  loadParams(emitInstruction(c1, "LOAD", operands), params, index + 1)

compileFunctionBegin(c, fnName, params) ==
  LET labels == createLabel(c, fnName, FALSE)
      c1 == emitInstruction(newLabel(c, FALSE), "JUMP", <<labels.after>>)
      c2 == loadParams(emitLabel(c1, labels.start), params, 1)
  IN  Suspend(enterScope(c2),
              Frame("function", <<>>, <<labels.start, labels.after>>, 0))

(* the epilogue without the implicit return *)
compileFunctionEndWithoutReturn(c, frame) == emitLabel(exitScope(c), frame.labels[2])

(* frame.pending counts the return statements directly in the body *)
compileFunctionEnd(c, frame) ==
  LET c1 == exitScope(c)
      c2 == IF frame.pending = 0
            THEN compileReturnStatement(c1, [argument |-> NoArgument])
            ELSE c1
  IN  emitLabel(c2, frame.labels[2])

(* statement/error/tryStatement.ts.  node = [handler, param, finalizer]:    *)
(* whether there is a catch clause, its parameter (NoName for none) and    *)
(* whether there is a finally block.  The try block, the catch body and    *)
(* the finalizer are block statements, each with a scope of its own inside *)
(* the scope the handler opens for it.  frame.labels = <<catch, finally,   *)
(* after, end>>.                                                           *)
compileTryBegin(c, node) ==
  LET l == contextLabel(c, "try", TRUE)
      c1 == enterScope(newLabel(c, TRUE))
      c2 == IF node.handler THEN push(c1, "error", l.key \o "_catch") ELSE c1
      c3 == emitLabel(c2, l.startLabel)
  IN  Suspend(enterScope(c3),
              [Frame("try", <<>>,
                     <<l.key \o "_catch", l.key \o "_finally", l.key \o "_after",
                       l.endLabel>>, 0)
                 EXCEPT !.test = node])

(* lines 94-97: the statement is complete *)
tryTail(c, frame) ==
  [c |-> exitScope(emitLabel(emitLabel(c, frame.labels[3]), frame.labels[4])),
   frame |-> frame, open |-> FALSE]

(* lines 83-89: up to the finalizer *)
tryFinallyBegin(c, frame) ==
  IF frame.test.finalizer
  THEN [c |-> enterScope(enterScope(emitLabel(c, frame.labels[2]))),
        frame |-> [frame EXCEPT !.kind = "finally"], open |-> TRUE]
  ELSE tryTail(c, frame)

(* lines 49-70: up to the body of the catch clause *)
tryCatchBegin(c, frame) ==
  LET c1 == enterScope(emitLabel(c, frame.labels[1]))
      c2 == IF frame.test.param # NoName
            THEN emitInstruction(Local(set(c1, frame.test.param, NoReg), "paramReg"),
                                 "LOAD", <<STACK_POINTER_REGISTER, "paramReg", "1">>)
            ELSE c1
  IN  [c |-> Leave(c, enterScope(c2)), frame |-> [frame EXCEPT !.kind = "catch"],
       open |-> TRUE]

tryJump(c, frame) ==
  emitInstruction(c, "JUMP",
                  <<IF frame.test.finalizer THEN frame.labels[2] ELSE frame.labels[3]>>)

(* the code after the try block with the catch label left on the stack *)
compileTryBlockEndKeepingHandler(c, frame) ==
  LET c3 == tryJump(exitScope(c), frame)
  IN  IF frame.test.handler THEN tryCatchBegin(c3, frame)
      ELSE tryFinallyBegin(c3, frame)

(* lines 36-46, after the try block *)
compileTryBlockEnd(c, frame) ==
  LET c1 == exitScope(c)
      c2 == IF frame.test.handler THEN pop(c1, "error") ELSE c1
      c3 == tryJump(c2, frame)
  IN  IF frame.test.handler THEN tryCatchBegin(c3, frame)
      ELSE tryFinallyBegin(c3, frame)

(* lines 72-79, after the body of the catch clause *)
compileCatchEnd(c, frame) ==
  tryFinallyBegin(tryJump(exitScope(exitScope(c)), frame), frame)

(* lines 91-97, after the finalizer *)
compileFinallyEnd(c, frame) == tryTail(exitScope(exitScope(c)), frame)

(* statement/switchStatement.ts *)
RECURSIVE compareCases(_, _, _, _)

CaseLabel(key, index) == key \o "_case_" \o ToString(index)

compareCase(c, test, label) ==
  LET c1 == Local(compileValue(c, test, NoName), "testReg")
      c2 == Local(next(c1), "compareReg")
      c3 == emitInstruction(c2, "SUB", <<"discriminantReg", "testReg", "compareReg">>)
      c4 == emitInstruction(c3, "BEQ", <<"compareReg", "$zero", label>>)
  IN  free(free(c4, "testReg"), "compareReg")

compareCases(c, tests, i, key) ==
  IF i > Len(tests) \/ ~Ok(c) THEN c
  ELSE IF tests[i].type = "none"
  THEN compareCases(c, tests, i + 1, key)
  ELSE compareCases(compareCase(c, tests[i], CaseLabel(key, i - 1)), tests, i + 1, key)

DefaultLabel(tests, key, endLabel) ==
  IF \E i \in DOMAIN tests : tests[i].type = "none"
  THEN CaseLabel(key, (CHOOSE i \in DOMAIN tests :
                         /\ tests[i].type = "none"
                         /\ \A j \in DOMAIN tests : tests[j].type = "none" => i <= j) - 1)
  ELSE endLabel

compileSwitchBegin(c, discriminant, tests) ==
  LET l == contextLabel(c, "switch", TRUE)
      c1 == push(enterScope(newLabel(c, TRUE)), "break", l.endLabel)
      c2 == Local(compileValue(c1, discriminant, "switch"), "discriminantReg")
      c3 == compareCases(emitLabel(c2, l.startLabel), tests, 1, l.key)
      c4 == emitInstruction(c3, "JUMP", <<DefaultLabel(tests, l.key, l.endLabel)>>)
  IN  Suspend(c4, Frame("switch", <<"discriminantReg">>, <<l.key, l.endLabel>>,
                        Len(tests)))

(* the label that opens the body of the next case *)
compileSwitchCase(c, frame, index) == emitLabel(c, CaseLabel(frame.labels[1], index))

compileSwitchEnd(c, frame) ==
  exitScope(free(pop(emitLabel(c, frame.labels[2]), "break"), frame.regs[1]))

(* the head of a counting loop: indexReg < lengthReg ? body : after *)
loopHead(c, labels) ==
  LET c1 == Local(next(emitLabel(c, labels.start)), "compareReg")
      c2 == emitInstruction(c1, "SUB", <<"indexReg", "lengthReg", "compareReg">>)
      c3 == emitInstruction(c2, "BLT", <<"compareReg", "$zero", labels.body>>)
  IN  emitLabel(emitInstruction(c3, "JUMP", <<labels.after>>), labels.body)

(* the tail of a counting loop, after the body *)
loopTail(c, frame) ==
  LET indexReg == frame.regs[1]
      c1 == emitLabel(c, frame.labels[2])
      c2 == emitInstruction(c1, "ADDI", <<indexReg, "1", indexReg>>)
      c3 == emitInstruction(c2, "JUMP", <<frame.labels[1]>>)
      c4 == pop(pop(emitLabel(c3, frame.labels[3]), "break"), "continue")
  IN  exitScope(free(free(free(c4, indexReg), frame.regs[2]), frame.regs[3]))

(* statement/loop/forInStatement.ts *)
compileForInBegin(c, loopVarName, iterable) ==
  LET labels == createLabel(c, "forIn", TRUE)
      c1 == push(push(newLabel(enterScope(c), TRUE), "break", labels.after),
                 "continue", labels.update)
      arrayInfo == Info(c, iterable)
  IN  IF arrayInfo.type # "array"
      THEN Suspend(Throw(c1, "NotAnArray"), Frame("forIn", <<>>, <<>>, 0))
      ELSE LET c2 == Local(set(c1, loopVarName, NoReg), "indexReg")
               c3 == emitInstruction(c2, "LDI", <<"indexReg", "0">>)
               c4 == Local(next(c3), "lengthReg")
               c5 == emitInstruction(c4, "LDI", <<"lengthReg", ToString(arrayInfo.size)>>)
           IN  Suspend(loopHead(c5, labels),
                       Frame("forIn", <<"indexReg", "lengthReg", "compareReg">>,
                             <<labels.start, labels.update, labels.after>>, 0))

compileForInEnd(c, frame) == loopTail(c, frame)

(* statement/loop/forOfStatement.ts *)
loadCurrent(c, arrayInfo) ==
  LET c1 == Local(next(c), "baseReg")
      c2 == emitInstruction(c1, "LDI", <<"baseReg", ToString(arrayInfo.base)>>)
      c3 == Local(next(c2), "offsetReg")
      c4 == emitInstruction(c3, "ADD", <<"baseReg", "indexReg", "offsetReg">>)
      c5 == emitInstruction(c4, "LOAD", <<"offsetReg", "valueReg", "0">>)
  IN  free(free(c5, "baseReg"), "offsetReg")

compileForOfBegin(c, loopVarName, iterable) ==
  LET labels == createLabel(c, "forOf", TRUE)
      c1 == push(push(newLabel(enterScope(c), TRUE), "break", labels.after),
                 "continue", labels.update)
      arrayInfo == Info(c, iterable)
  IN  IF arrayInfo.type # "array"
      THEN Suspend(Throw(c1, "NotAnArray"), Frame("forOf", <<>>, <<>>, 0))
      ELSE LET c2 == Local(next(c1), "indexReg")
               c3 == emitInstruction(c2, "LDI", <<"indexReg", "0">>)
               c4 == Local(next(c3), "lengthReg")
               c5 == emitInstruction(c4, "LDI", <<"lengthReg", ToString(arrayInfo.size)>>)
               c6 == Local(set(c5, loopVarName, NoReg), "valueReg")
           IN  Suspend(loadCurrent(loopHead(c6, labels), arrayInfo),
                       Frame("forOf", <<"indexReg", "lengthReg", "compareReg">>,
                             <<labels.start, labels.update, labels.after>>, 0))

compileForOfEnd(c, frame) == loopTail(c, frame)

(* statement/loop/whileStatement.ts *)
compileWhileBegin(c, test) ==
  LET labels == createLabel(c, "while", TRUE)
      c1 == emitLabel(newLabel(enterScope(c), TRUE), labels.start)
      c2 == push(push(c1, "break", labels.after), "continue", labels.start)
      c3 == compileTest(c2, test, labels.body, labels.after)
  IN  Suspend(emitLabel(c3, labels.body),
              Frame("while", <<>>, <<labels.start, labels.body, labels.after>>, 0))

compileWhileEnd(c, frame) ==
  LET c1 == emitInstruction(c, "JUMP", <<frame.labels[1]>>)
  IN  exitScope(pop(pop(emitLabel(c1, frame.labels[3]), "break"), "continue"))

(* statement/loop/forStatement.ts.  node.init, node.test and node.update    *)
(* are NoArgument when absent.  The handler is split at its compileNode    *)
(* calls: of the initialization, of the body and of an update that is not  *)
(* an update expression.  frame.test holds the node and frame.labels =     *)
(* <<start, update, end>> once the labels are made.                        *)
forHead(c, frame) ==
  LET l == contextLabel(c, "for", TRUE)
      bodyLabel == l.key \o "_body"
      updateLabel == l.key \o "_update"
      c3 == push(push(newLabel(c, TRUE), "break", l.endLabel),
                 "continue", updateLabel)
      c4 == compileTest(emitLabel(c3, l.startLabel), frame.test.test, bodyLabel,
                        l.endLabel)
  IN  [c |-> emitLabel(c4, bodyLabel),
       frame |-> [frame EXCEPT !.kind = "for",
                               !.labels = <<l.startLabel, updateLabel, l.endLabel>>],
       open |-> TRUE]

(* lines 10-13: up to the initialization, or to the body when there is none *)
compileForBegin(c, node) ==
  LET frame == [Frame("forInit", <<>>, <<>>, 0) EXCEPT !.test = node]
  IN  IF node.init.type = "none"
      THEN forHead(enterScope(c), frame)
      ELSE [c |-> enterScope(c), frame |-> frame, open |-> TRUE]

(* lines 14-19 and 42: the statement handed to compileNode, which is the   *)
(* initialization, or the update wrapped in an expression statement        *)
forStatement(frame) ==
  CASE frame.kind = "forUpdate" ->
         [type |-> "ExpressionStatement", expression |-> frame.test.update]
    [] frame.test.init.type = "VariableDeclaration" -> frame.test.init
    [] OTHER -> [type |-> "ExpressionStatement", expression |-> frame.test.init]

(* lines 45-51 *)
forTail(c, frame) ==
  LET c1 == emitInstruction(c, "JUMP", <<frame.labels[1]>>)
  IN  [c |-> exitScope(pop(pop(emitLabel(c1, frame.labels[3]), "break"), "continue")),
       frame |-> frame, open |-> FALSE]

(* lines 37-41, after the body *)
compileForBodyEnd(c, frame) ==
  LET c1 == emitLabel(c, frame.labels[2])
  IN  CASE frame.test.update.type = "none" -> forTail(c1, frame)
        [] frame.test.update.type = "UpdateExpression" ->
             forTail(Leave(c, compileUpdateExpression(c1, frame.test.update)), frame)
        [] OTHER -> [c |-> c1, frame |-> [frame EXCEPT !.kind = "forUpdate"],
                     open |-> TRUE]

(* statement/loop/doWhileStatement.ts.  frame.labels = <<test label, body   *)
(* label, after label>>; the test is lowered after the body.               *)
compileDoWhileBegin(c, test) ==
  LET l == contextLabel(c, "dowhile", TRUE)
      bodyLabel == l.key \o "_body"
      c1 == push(push(newLabel(enterScope(c), TRUE), "break", l.endLabel),
                 "continue", bodyLabel)
  IN  Suspend(emitLabel(c1, bodyLabel),
              [Frame("doWhile", <<>>, <<l.startLabel, bodyLabel, l.endLabel>>, 0)
                 EXCEPT !.test = test])

(* the do-while of statement/loop/forInStatement.ts lines 77-120 *)
compileDoWhileLabelsBegin(c, test) ==
  LET labels == createLabel(c, "doWhile", TRUE)
      c1 == push(push(newLabel(enterScope(c), TRUE), "break", labels.after),
                 "continue", labels.body)
  IN  Suspend(emitLabel(c1, labels.body),
              [Frame("doWhile", <<>>, <<labels.start, labels.body, labels.after>>, 0)
                 EXCEPT !.test = test])

compileDoWhileEnd(c, frame) ==
  LET c1 == emitLabel(c, frame.labels[1])
      c2 == compileTest(c1, frame.test, frame.labels[2], frame.labels[3])
  IN  exitScope(pop(pop(emitLabel(c2, frame.labels[3]), "break"), "continue"))

-----------------------------------------------------------------------------
(* Statement nodes *)

Let(n, init) == [type |-> "VariableDeclaration", kind |-> "let", id |-> n, init |-> init]
Const(n, init) ==
  [type |-> "VariableDeclaration", kind |-> "const", id |-> n, init |-> init]
Assign(op, left, right) ==
  [type |-> "ExpressionStatement",
   expression |-> [type |-> "AssignmentExpression", operator |-> op,
                   left |-> left, right |-> right]]
Update(op, n) ==
  [type |-> "ExpressionStatement",
   expression |-> [type |-> "UpdateExpression", operator |-> op, argument |-> n]]
Return(arg) == [type |-> "ReturnStatement", argument |-> arg]
ThrowNode(arg) == [type |-> "ThrowStatement", argument |-> arg]

-----------------------------------------------------------------------------
(* The state machine: one step per handler call of the recursive descent *)

Cur ==
  [variables |-> variables, registers |-> registers, constNames |-> constNames,
   currentScope |-> currentScope, scopeStack |-> scopeStack,
   nextMemoryAddress |-> nextMemoryAddress, labelCounter |-> labelCounter,
   breakHandlerStack |-> breakHandlerStack,
   continueHandlerStack |-> continueHandlerStack,
   errorHandlerStack |-> errorHandlerStack,
   out |-> <<>>, err |-> "none", reg |-> NoReg, l |-> NoLocals]

(* the part of the state a statement's handler starts from *)
Pre ==
  [registers |-> registers, variables |-> variables, scope |-> currentScope,
   constNames |-> constNames]

(* the names of the label entries among the emitted entries *)
LabelNames(out) ==
  LET ls == SelectSeq(out, LAMBDA e : e.kind = "label")
  IN  [i \in DOMAIN ls |-> ls[i].operands[1]]

Commit(c, handler, node, fr, pre) ==
  /\ variables' = c.variables
  /\ registers' = c.registers
  /\ constNames' = c.constNames
  /\ currentScope' = c.currentScope
  /\ scopeStack' = c.scopeStack
  /\ nextMemoryAddress' = c.nextMemoryAddress
  /\ labelCounter' = c.labelCounter
  /\ breakHandlerStack' = c.breakHandlerStack
  /\ continueHandlerStack' = c.continueHandlerStack
  /\ errorHandlerStack' = c.errorHandlerStack
  /\ assembly' = c.out
  /\ declaredLabels' = declaredLabels \o LabelNames(c.out)
  /\ error' = c.err
  /\ frames' = fr
  /\ last' = [handler |-> handler, node |-> node, registers |-> pre.registers,
              variables |-> pre.variables, scope |-> pre.scope,
              constNames |-> pre.constNames, reg |-> c.reg]
  /\ UNCHANGED compilations

Init ==
  /\ variables = [n \in Names |-> Absent]
  /\ registers = [r \in GenericSet |-> FALSE]
  /\ constNames = {}
  /\ currentScope = 0
  /\ scopeStack = <<0>>
  /\ nextMemoryAddress = 0
  /\ labelCounter = 0
  /\ breakHandlerStack = <<>>
  /\ continueHandlerStack = <<>>
  /\ errorHandlerStack = <<>>
  /\ assembly = <<>>
  /\ declaredLabels = <<>>
  /\ error = "none"
  /\ frames = <<>>
  /\ last = [handler |-> "none", node |-> NoArgument,
             registers |-> [r \in GenericSet |-> FALSE],
             variables |-> [n \in Names |-> Absent], scope |-> 0,
             constNames |-> {}, reg |-> NoReg]
  /\ stmts = 0
  /\ compilations = 1

TopFrame ==
  IF frames = <<>> THEN Frame("none", <<>>, <<>>, 0) ELSE frames[Len(frames)]

(* a statement can be lowered here: inside a switch only after a case label *)
InBody ==
  CASE TopFrame.kind = "switch" -> TopFrame.pending < TopFrame.cases
    [] TopFrame.kind \in {"forInit", "forHead", "forUpdate", "forTail"} -> FALSE
    [] OTHER -> TRUE

CanBegin == error = "none" /\ stmts < MaxStatements /\ InBody

CanEnd(kind) == error = "none" /\ frames # <<>> /\ TopFrame.kind = kind

(* compileNode(node) can be called here: by the statement list of a body,  *)
(* or by a for statement that is at its initialization or its update       *)
CanLower(node) ==
  /\ error = "none"
  /\ stmts < MaxStatements
  /\ IF TopFrame.kind \in {"forInit", "forUpdate"}
     THEN node = forStatement(TopFrame)
     ELSE InBody

(* the open handlers when that call returns *)
Lowered ==
  CASE TopFrame.kind = "forInit" -> [frames EXCEPT ![Len(frames)].kind = "forHead"]
    [] TopFrame.kind = "forUpdate" -> [frames EXCEPT ![Len(frames)].kind = "forTail"]
    [] OTHER -> frames

VariableDeclaration(node) ==
  /\ CanLower(node)
  /\ Commit(compileVariableDeclaration(Cur, node), "VariableDeclaration", node,
            Lowered, Pre)
  /\ stmts' = stmts + 1

ExpressionStatement(node) ==
  /\ CanLower(node)
  /\ Commit(compileExpressionStatement(Cur, node), "ExpressionStatement", node,
            Lowered, Pre)
  /\ stmts' = stmts + 1

ReturnStatement(node) ==
  /\ CanBegin
  /\ Commit(compileReturnStatement(Cur, node), "ReturnStatement", node,
            IF TopFrame.kind = "function"
            THEN [frames EXCEPT ![Len(frames)].pending = 1] ELSE frames, Pre)
  /\ stmts' = stmts + 1

ThrowStatement(node) ==
  /\ CanBegin
  /\ Commit(compileThrowStatement(Cur, node), "ThrowStatement", node, frames, Pre)
  /\ stmts' = stmts + 1

BreakStatement ==
  /\ CanBegin
  /\ Commit(compileBreakStatement(Cur), "BreakStatement", NoArgument, frames, Pre)
  /\ stmts' = stmts + 1

ContinueStatement ==
  /\ CanBegin
  /\ Commit(compileContinueStatement(Cur), "ContinueStatement", NoArgument, frames, Pre)
  /\ stmts' = stmts + 1

Begin(r, handler, node) ==
  /\ CanBegin
  /\ Len(frames) < MaxDepth
  /\ Commit(r.c, handler, node, Append(frames, [r.frame EXCEPT !.before = Pre]), Pre)
  /\ stmts' = stmts + 1

End(c, handler) ==
  /\ Commit(c, handler, NoArgument, Pop(frames), TopFrame.before)
  /\ UNCHANGED stmts

BlockStatement == Begin(compileBlockBegin(Cur), "BlockStatement", NoArgument)

FunctionDeclaration(fnName, params) ==
  Begin(compileFunctionBegin(Cur, fnName, params), "FunctionDeclaration",
        [type |-> "FunctionDeclaration", id |-> fnName, params |-> params])

FunctionDeclarationEnd ==
  /\ CanEnd("function")
  /\ End(compileFunctionEnd(Cur, TopFrame), "FunctionDeclarationEnd")

TryStatement(node) ==
  Begin(compileTryBegin(Cur, node), "TryStatement",
        [type |-> "TryStatement", handler |-> node.handler, param |-> node.param,
         finalizer |-> node.finalizer])

(* the handler resumes after one of its blocks and runs to the next one *)
Resume(r, handler) ==
  /\ Commit(r.c, handler, NoArgument,
            IF r.open THEN [frames EXCEPT ![Len(frames)] = r.frame] ELSE Pop(frames),
            TopFrame.before)
  /\ UNCHANGED stmts

TryBlockEnd ==
  /\ CanEnd("try")
  /\ Resume(compileTryBlockEnd(Cur, TopFrame), "TryBlockEnd")

CatchClauseEnd ==
  /\ CanEnd("catch")
  /\ Resume(compileCatchEnd(Cur, TopFrame), "CatchClauseEnd")

FinallyBlockEnd ==
  /\ CanEnd("finally")
  /\ Resume(compileFinallyEnd(Cur, TopFrame), "FinallyBlockEnd")

BlockStatementEnd ==
  /\ CanEnd("block")
  /\ End(compileBlockEnd(Cur, TopFrame), "BlockStatementEnd")

SwitchStatement(discriminant, tests) ==
  Begin(compileSwitchBegin(Cur, discriminant, tests), "SwitchStatement",
        [type |-> "SwitchStatement", discriminant |-> discriminant, tests |-> tests])

SwitchCase ==
  /\ CanEnd("switch")
  /\ TopFrame.pending > 0
  /\ Commit(compileSwitchCase(Cur, TopFrame, TopFrame.cases - TopFrame.pending),
            "SwitchCase", NoArgument,
            [frames EXCEPT ![Len(frames)].pending = @ - 1], Pre)
  /\ UNCHANGED stmts

SwitchStatementEnd ==
  /\ CanEnd("switch")
  /\ TopFrame.pending = 0
  /\ End(compileSwitchEnd(Cur, TopFrame), "SwitchStatementEnd")

ForInStatement(loopVarName, iterable) ==
  Begin(compileForInBegin(Cur, loopVarName, iterable), "ForInStatement",
        [type |-> "ForInStatement", left |-> loopVarName, right |-> iterable])

ForInStatementEnd ==
  /\ CanEnd("forIn")
  /\ End(compileForInEnd(Cur, TopFrame), "ForInStatementEnd")

ForOfStatement(loopVarName, iterable) ==
  Begin(compileForOfBegin(Cur, loopVarName, iterable), "ForOfStatement",
        [type |-> "ForOfStatement", left |-> loopVarName, right |-> iterable])

ForOfStatementEnd ==
  /\ CanEnd("forOf")
  /\ End(compileForOfEnd(Cur, TopFrame), "ForOfStatementEnd")

WhileStatement(test) ==
  Begin(compileWhileBegin(Cur, test), "WhileStatement",
        [type |-> "WhileStatement", test |-> test])

WhileStatementEnd ==
  /\ CanEnd("while")
  /\ End(compileWhileEnd(Cur, TopFrame), "WhileStatementEnd")

ForStatement(init, test, update) ==
  Begin(compileForBegin(Cur, [init |-> init, test |-> test, update |-> update]),
        "ForStatement",
        [type |-> "ForStatement", init |-> init, test |-> test, update |-> update])

ForHead ==
  /\ CanEnd("forHead")
  /\ Resume(forHead(Cur, TopFrame), "ForHead")

ForBodyEnd ==
  /\ CanEnd("for")
  /\ Resume(compileForBodyEnd(Cur, TopFrame), "ForBodyEnd")

ForTail ==
  /\ CanEnd("forTail")
  /\ Resume(forTail(Cur, TopFrame), "ForTail")

DoWhileStatement(test) ==
  Begin(compileDoWhileBegin(Cur, test), "DoWhileStatement",
        [type |-> "DoWhileStatement", test |-> test])

DoWhileLabelsStatement(test) ==
  Begin(compileDoWhileLabelsBegin(Cur, test), "DoWhileStatement",
        [type |-> "DoWhileStatement", test |-> test])

DoWhileStatementEnd ==
  /\ CanEnd("doWhile")
  /\ End(compileDoWhileEnd(Cur, TopFrame), "DoWhileStatementEnd")

-----------------------------------------------------------------------------
(* Specification of the statement lowering: programs of at most            *)
(* MaxStatements statements over the names, nested at most MaxDepth deep.  *)

Values ==
  {Lit(5), Call("f", <<>>)}
    \cup {Id(m) : m \in Names}
    \cup {Bin("+", Lit(1), Id(m)) : m \in Names}
    \cup {Bin("+", Id(m), Lit(1)) : m \in Names}

Operands == {Lit(1)} \cup {Id(m) : m \in Names}

(* the tests of the cases of a switch; NoArgument is the default case *)
CaseTests == {<<Lit(1)>>, <<Lit(1), NoArgument>>, <<Lit(1), NoArgument, Lit(5)>>}

Next ==
  \/ \E n \in Names, v \in Values : VariableDeclaration(Let(n, v))
  \/ \E n \in Names : VariableDeclaration(Const(n, Lit(1)))
  \/ \E n \in Names, v \in Values : ExpressionStatement(Assign("=", Id(n), v))
  \/ \E n \in Names, v \in Operands : ExpressionStatement(Assign("+=", Id(n), v))
  \/ \E a \in {Lit(5), NoArgument} : ReturnStatement(Return(a))
  \/ BlockStatement
  \/ BlockStatementEnd
  \/ \E n \in Names, t \in CaseTests : SwitchStatement(Id(n), t)
  \/ SwitchCase
  \/ SwitchStatementEnd
  \/ BreakStatement

Spec == Init /\ [][Next]_vars

-----------------------------------------------------------------------------
(* Specification of the array lowering: x is the array, y the index        *)
(* variable and the loop variable.                                         *)

Elements(n) == [k \in 1..n |-> Lit(k)]

(* lengths on both sides of the length that moves the base address *)
Lengths == {3, MAX_ARRAY_OFFSET + 2}

(* index 3 is the length of the shorter array: out of its bounds *)
Indexes == {Lit(1), Lit(3), Id("y"), Bin("+", Id("y"), Lit(1))}

NextArray ==
  \/ \E n \in Lengths : VariableDeclaration(Let("x", ArrayExpr(Elements(n))))
  \/ VariableDeclaration(Let("y", Lit(2)))
  \/ \E p \in Indexes : ExpressionStatement(Assign("=", Id("y"), Member("x", p)))
  \/ \E p \in Indexes, v \in {Lit(5), Id("y")} :
       ExpressionStatement(Assign("=", Member("x", p), v))
  \/ ForOfStatement("y", "x")
  \/ ForOfStatementEnd
  \/ ForInStatement("y", "x")
  \/ ForInStatementEnd

SpecArray == Init /\ [][NextArray]_vars

-----------------------------------------------------------------------------
(* Specification of the loop lowering: break and continue inside while and *)
(* do-while loops.                                                         *)

Tests == {Bin("<", Id("x"), Lit(5)), Lit(1)}

NextLoop ==
  \/ VariableDeclaration(Let("x", Lit(0)))
  \/ ExpressionStatement(Update("++", "x"))
  \/ \E t \in Tests : WhileStatement(t)
  \/ WhileStatementEnd
  \/ \E t \in Tests : DoWhileStatement(t)
  \/ \E t \in Tests : DoWhileLabelsStatement(t)
  \/ DoWhileStatementEnd
  \/ BreakStatement
  \/ ContinueStatement

SpecLoop == Init /\ [][NextLoop]_vars

(* programs whose loops test a comparison of variables and literals *)
ComparisonOperators == {"==", "===", "!=", "!==", "<", "<=", ">", ">="}

ComparisonOperands ==
  {<<Id("x"), Lit(5)>>, <<Lit(5), Id("x")>>, <<Id("x"), Id("y")>>,
   <<Lit(0), Id("y")>>}

Comparisons ==
  {Bin(op, p[1], p[2]) : op \in ComparisonOperators, p \in ComparisonOperands}

NextTest ==
  \/ \E n \in Names : VariableDeclaration(Let(n, Lit(1)))
  \/ \E t \in Comparisons : WhileStatement(t)
  \/ WhileStatementEnd

SpecTest == Init /\ [][NextTest]_vars

(* programs with try statements, throws and an enclosing loop *)
TryNodes ==
  {[handler |-> TRUE, param |-> "y", finalizer |-> FALSE],
   [handler |-> TRUE, param |-> "y", finalizer |-> TRUE],
   [handler |-> TRUE, param |-> NoName, finalizer |-> TRUE],
   [handler |-> FALSE, param |-> NoName, finalizer |-> TRUE]}

NextTry ==
  \/ VariableDeclaration(Let("x", Lit(1)))
  \/ \E node \in TryNodes : TryStatement(node)
  \/ TryBlockEnd
  \/ CatchClauseEnd
  \/ FinallyBlockEnd
  \/ \E a \in {Lit(1), Id("x")} : ThrowStatement(ThrowNode(a))
  \/ WhileStatement(Lit(1))
  \/ WhileStatementEnd
  \/ BreakStatement

SpecTry == Init /\ [][NextTry]_vars

(* for statements: without clauses, with a declaration and an update      *)
(* expression, with an assignment as init and as update                    *)
ForNodes ==
  {[init |-> NoArgument, test |-> NoArgument, update |-> NoArgument],
   [init |-> Let("y", Lit(0)), test |-> Bin("<", Id("y"), Lit(5)),
    update |-> Update("++", "y").expression],
   [init |-> Assign("=", Id("y"), Lit(1)).expression, test |-> NoArgument,
    update |-> Assign("+=", Id("y"), Lit(1)).expression]}

NextFor ==
  \/ \E node \in ForNodes : ForStatement(node.init, node.test, node.update)
  \/ VariableDeclaration(Let("y", Lit(0)))
  \/ \E op \in {"=", "+="} : ExpressionStatement(Assign(op, Id("y"), Lit(1)))
  \/ ForHead
  \/ ForBodyEnd
  \/ ForTail

SpecFor == Init /\ [][NextFor]_vars

(* programs of nested loops and switches with break and continue *)
NextNest ==
  \/ \E node \in {Let("x", ArrayExpr(Elements(2))), Let("y", Lit(0))} :
       VariableDeclaration(node)
  \/ WhileStatement(Lit(1))
  \/ WhileStatementEnd
  \/ \E node \in {n \in ForNodes : n.update.type # "AssignmentExpression"} :
       ForStatement(node.init, node.test, node.update)
  \/ ForHead
  \/ ForBodyEnd
  \/ ForInStatement("y", "x")
  \/ ForInStatementEnd
  \/ ForOfStatement("y", "x")
  \/ ForOfStatementEnd
  \/ DoWhileStatement(Lit(1))
  \/ DoWhileStatementEnd
  \/ SwitchStatement(Lit(1), <<Lit(1)>>)
  \/ SwitchCase
  \/ SwitchStatementEnd
  \/ BreakStatement
  \/ ContinueStatement

SpecNest == Init /\ [][NextNest]_vars

(* programs of function declarations, loops and switches: the statements   *)
(* that declare labels                                                     *)
FunctionNames == {"f", "g"}
ParamLists == {<<>>, <<"x">>, <<"x", "y">>}

NextLabels ==
  \/ \E fnName \in FunctionNames, params \in ParamLists :
       FunctionDeclaration(fnName, params)
  \/ FunctionDeclarationEnd
  \/ \E a \in {Lit(5), NoArgument} : ReturnStatement(Return(a))
  \/ WhileStatement(Lit(1))
  \/ WhileStatementEnd
  \/ DoWhileStatement(Lit(1))
  \/ DoWhileLabelsStatement(Lit(1))
  \/ DoWhileStatementEnd
  \/ SwitchStatement(Lit(1), <<Lit(1), NoArgument>>)
  \/ SwitchCase
  \/ SwitchStatementEnd

SpecLabels == Init /\ [][NextLabels]_vars

(* esprima.parseScript rejects a break or continue that no loop or switch  *)
(* of the same function encloses ("Illegal break statement"): the compiler *)
(* sees one only where a frame of these kinds is open above every open     *)
(* function frame                                                          *)
Legal(kinds) ==
  \E i \in DOMAIN frames :
    /\ frames[i].kind \in kinds
    /\ \A j \in i..Len(frames) : frames[j].kind # "function"

(* programs of function declarations inside try statements and loops *)
NextUnwind ==
  \/ FunctionDeclaration("f", <<>>)
  \/ FunctionDeclarationEnd
  \/ \E node \in TryNodes : TryStatement(node)
  \/ TryBlockEnd
  \/ CatchClauseEnd
  \/ FinallyBlockEnd
  \/ ThrowStatement(ThrowNode(Lit(1)))
  \/ WhileStatement(Lit(1))
  \/ WhileStatementEnd
  \/ Legal({"while"}) /\ BreakStatement
  \/ Legal({"while"}) /\ ContinueStatement

SpecUnwind == Init /\ [][NextUnwind]_vars

(* A further compilation in the same process.  The compilation before it   *)
(* has returned or has thrown.  The compiler context (assembly, label      *)
(* counter, handler stacks) is created anew; the state of the registers    *)
(* module and of the memory allocator is module-level and no entry point   *)
(* calls a reset, so it is what the earlier compilation left.              *)
compile ==
  /\ compilations < MaxCompilations
  /\ stmts > 0
  /\ frames = <<>> \/ error # "none"
  /\ labelCounter' = 0
  /\ breakHandlerStack' = <<>>
  /\ continueHandlerStack' = <<>>
  /\ errorHandlerStack' = <<>>
  /\ assembly' = <<>>
  /\ declaredLabels' = <<>>
  /\ error' = "none"
  /\ frames' = <<>>
  /\ stmts' = 0
  /\ compilations' = compilations + 1
  /\ last' = [handler |-> "compile", node |-> NoArgument,
              registers |-> registers, variables |-> variables,
              scope |-> currentScope, constNames |-> constNames, reg |-> NoReg]
  /\ UNCHANGED <<variables, registers, constNames, currentScope, scopeStack,
                 nextMemoryAddress>>

(* programs compiled one after the other in one process *)
NextProcess ==
  \/ \E node \in {Let("x", Lit(1)), Const("y", Lit(2)),
                   Let("x", ArrayExpr(Elements(2)))} : VariableDeclaration(node)
  \/ WhileStatement(Lit(1))
  \/ WhileStatementEnd
  \/ compile

SpecProcess == Init /\ [][NextProcess]_vars

-----------------------------------------------------------------------------
(* Specification of the symbol table: memory/registers.ts exports its      *)
(* methods, and each action is one call of one of them by a client.  At    *)
(* most MaxCalls calls are made.                                           *)

MaxCalls == 4

Method(c, name, args) ==
  /\ error = "none"
  /\ stmts < MaxCalls
  /\ Commit(c, name, args, frames, Pre)
  /\ stmts' = stmts + 1

EnterScope == Method(enterScope(Cur), "enterScope", NoArgument)

ExitScope == Method(exitScope(Cur), "exitScope", NoArgument)

Set(key) == Method(set(Cur, key, NoReg), "set", [key |-> key])

SetConst(key, value) ==
  Method(setConst(Cur, key, value), "setConst", [key |-> key, value |-> value])

SetArray(key, length) ==
  Method(setArray(Cur, key, length), "setArray", [key |-> key, length |-> length])

SetMemory(key) == Method(setMemory(Cur, key), "setMemory", [key |-> key])

Get(key) == Method(get(Cur, key), "get", [key |-> key])

NextRegister == Method(next(Cur), "next", NoArgument)

Free(r) == Method(free(Cur, r), "free", [register |-> r])

NextRegisters ==
  \/ EnterScope
  \/ ExitScope
  \/ \E n \in Names : Set(n)
  \/ \E n \in Names : SetConst(n, 1)
  \/ \E n \in Names : SetArray(n, 2)
  \/ \E n \in Names : SetMemory(n)
  \/ \E n \in Names : Get(n)
  \/ NextRegister
  \/ \E r \in {"r1", "r2"} : Free(r)

SpecRegisters == Init /\ [][NextRegisters]_vars

-----------------------------------------------------------------------------
(* Specification of the memory allocator behind setArray and setMemory:    *)
(* arrays of every length up to 16, and lengths that take the bump pointer *)
(* to the end of the data region.                                          *)

ArrayLengths == (1..16) \cup {208, 223, 224}

NextMemory ==
  \/ \E n \in Names, length \in ArrayLengths : SetArray(n, length)
  \/ \E n \in Names : SetMemory(n)
  \/ EnterScope
  \/ ExitScope

SpecMemory == Init /\ [][NextMemory]_vars

-----------------------------------------------------------------------------
(* Reading the state and the emitted code *)

InUse(regs) == {r \in GenericSet : regs[r]}

IsRegister(info) == info.type = "register"

(* ISA.ts: the register an instruction writes *)
Written(entry) ==
  IF entry.kind # "instruction" THEN NoReg
  ELSE CASE entry.op \in {"LDI", "ADDI", "SUBI"} -> entry.operands[1]
         [] entry.op \in {"MOVE", "LOAD"} -> entry.operands[2]
         [] entry.op \in {"ADD", "SUB"} -> entry.operands[3]
         [] OTHER -> NoReg

(* the statement lowered last is `let name = value` *)
IsLet == last.handler = "VariableDeclaration" /\ last.node.kind = "let"

(* the statement lowered last is the plain assignment `name = value` *)
IsPlainAssignment ==
  /\ last.handler = "ExpressionStatement"
  /\ last.node.expression.type = "AssignmentExpression"
  /\ last.node.expression.operator = "="
  /\ last.node.expression.left.type = "Identifier"

Target == IF IsLet THEN last.node.id ELSE last.node.expression.left.name

Assigned == IF IsLet THEN last.node.init ELSE last.node.expression.right

(* the last handler completed a statement *)
StatementDone ==
  last.handler \in {"VariableDeclaration", "ExpressionStatement", "ReturnStatement",
                    "ThrowStatement", "BreakStatement", "ContinueStatement",
                    "BlockStatementEnd", "SwitchStatementEnd", "ForInStatementEnd",
                    "ForOfStatementEnd", "WhileStatementEnd", "DoWhileStatementEnd"}

(* registers of the bindings the statement lowered last has added *)
NewBindings ==
  {variables[n].reg : n \in {m \in Names : /\ IsRegister(variables[m])
                                           /\ last.variables[m].type = "none"}}

(* the statement lowered last is the store arr[p] = value *)
IsMemberStore ==
  /\ last.handler = "ExpressionStatement"
  /\ last.node.expression.type = "AssignmentExpression"
  /\ last.node.expression.left.type = "MemberExpression"

LoopKinds == {"while", "doWhile", "forIn", "forOf"}

LoopFrames == {i \in DOMAIN frames : frames[i].kind \in LoopKinds}

(* the frame of the innermost loop that is open *)
InnermostLoop == frames[CHOOSE i \in LoopFrames : \A j \in LoopFrames : j <= i]

-----------------------------------------------------------------------------
(* ISA.ts: the machine running emitted straight-line code.  Accesses is    *)
(* the sequence of data addresses its LOAD and STORE instructions touch    *)
(* (those relative to the stack pointer are not data accesses).            *)

Immediates == -16..255

Number(s) ==
  IF \E n \in Immediates : ToString(n) = s
  THEN CHOOSE n \in Immediates : ToString(n) = s
  ELSE 0

Content(regs, r) == IF r \in DOMAIN regs THEN regs[r] ELSE 0

RECURSIVE Accesses(_, _, _)

Accesses(code, i, regs) ==
  IF i > Len(code) THEN <<>>
  ELSE LET o == code[i].operands
           op == code[i].op
       IN  CASE op = "LDI" ->
                  Accesses(code, i + 1, [regs EXCEPT ![o[1]] = Number(o[2])])
             [] op = "MOVE" ->
                  Accesses(code, i + 1, [regs EXCEPT ![o[2]] = Content(regs, o[1])])
             [] op = "ADD" ->
                  Accesses(code, i + 1,
                    [regs EXCEPT ![o[3]] = Content(regs, o[1]) + Content(regs, o[2])])
             [] op = "SUB" ->
                  Accesses(code, i + 1,
                    [regs EXCEPT ![o[3]] = Content(regs, o[1]) - Content(regs, o[2])])
             [] op = "ADDI" ->
                  Accesses(code, i + 1,
                    [regs EXCEPT ![o[1]] = Content(regs, o[1]) + Number(o[2])])
             [] op = "SUBI" ->
                  Accesses(code, i + 1,
                    [regs EXCEPT ![o[1]] = Content(regs, o[1]) - Number(o[2])])
             [] op \in {"LOAD", "STORE"} /\ o[1] # STACK_POINTER_REGISTER ->
                  <<Content(regs, o[1]) + (IF Len(o) = 3 THEN Number(o[3]) ELSE 0)>>
                    \o Accesses(code, i + 1, regs)
             [] OTHER -> Accesses(code, i + 1, regs)

(* the register file when the code of the last statement starts, the       *)
(* variable y holding the value iv                                         *)
RegistersAtStart(iv) ==
  [r \in GenericSet |->
     IF IsRegister(last.variables["y"]) /\ r = last.variables["y"].reg THEN iv ELSE 0]

(* the value of an index expression over y *)
RECURSIVE Eval(_, _)

Eval(node, iv) ==
  CASE node.type = "Literal" -> node.value
    [] node.type = "Identifier" -> iv
    [] node.type = "BinaryExpression" /\ node.operator = "+" ->
         Eval(node.left, iv) + Eval(node.right, iv)
    [] node.type = "BinaryExpression" /\ node.operator = "-" ->
         Eval(node.left, iv) - Eval(node.right, iv)

IndexValues == {0, 1}

(* ISA.ts CONDITIONS: CMP a b is SUB a b r0 on 8-bit words; Z is set when   *)
(* the difference is zero and C when the subtraction does not borrow.      *)
Word(v) == v % 256

Flags(a, b) == [Z |-> Word(a) = Word(b), C |-> Word(a) >= Word(b)]

Taken(cond, flags) ==
  CASE cond = "==" -> flags.Z
    [] cond = "!=" -> ~flags.Z
    [] cond = ">=" -> flags.C
    [] cond = "<" -> ~flags.C
    [] OTHER -> FALSE

(* the BRANCH instructions of straight-line code, each with its condition  *)
(* and whether the machine takes it from the register file `regs`          *)
RECURSIVE Branches(_, _, _, _)

Branches(code, i, regs, flags) ==
  IF i > Len(code) THEN <<>>
  ELSE LET o == code[i].operands
           op == code[i].op
       IN  CASE op = "LDI" ->
                  Branches(code, i + 1, [regs EXCEPT ![o[1]] = Number(o[2])], flags)
             [] op = "MOVE" ->
                  Branches(code, i + 1,
                           [regs EXCEPT ![o[2]] = Content(regs, o[1])], flags)
             [] op = "CMP" ->
                  Branches(code, i + 1, regs,
                           Flags(Content(regs, o[1]), Content(regs, o[2])))
             [] op = "BRANCH" ->
                  <<[condition |-> o[1], taken |-> Taken(o[1], flags)]>>
                    \o Branches(code, i + 1, regs, flags)
             [] OTHER -> Branches(code, i + 1, regs, flags)

(* the truth of a source comparison *)
Holds(operator, l, r) ==
  CASE operator \in {"==", "==="} -> l = r
    [] operator \in {"!=", "!=="} -> l # r
    [] operator = "<" -> l < r
    [] operator = "<=" -> l <= r
    [] operator = ">" -> l > r
    [] operator = ">=" -> l >= r

TestValues == {0, 4, 5, 6, 255}

(* the register file when the code of the last statement starts, x and y   *)
(* holding the values xv and yv                                            *)
RegistersHolding(xv, yv) ==
  [r \in GenericSet |->
     IF IsRegister(last.variables["x"]) /\ r = last.variables["x"].reg THEN xv
     ELSE IF IsRegister(last.variables["y"]) /\ r = last.variables["y"].reg THEN yv
     ELSE 0]

OperandValue(node, xv, yv) ==
  CASE node.type = "Literal" -> node.value
    [] node.type = "Identifier" -> IF node.name = "x" THEN xv ELSE yv

(* the statement lowered last is a while loop testing a comparison of      *)
(* literals and declared variables                                         *)
IsComparisonTest ==
  /\ last.handler = "WhileStatement"
  /\ error = "none"
  /\ last.node.test.type = "BinaryExpression"
  /\ \A e \in {last.node.test.left, last.node.test.right} :
       e.type = "Identifier" => IsRegister(last.variables[e.name])

-----------------------------------------------------------------------------
(* Claims *)

(* C1: no generic register is held by two bindings of the symbol table at  *)
(* the same time.                                                          *)
C1_OneBindingPerRegister ==
  error = "none" =>
    \A n, m \in Names :
      (/\ n # m
       /\ IsRegister(variables[n]) /\ IsRegister(variables[m])
       /\ variables[n].reg \in GenericSet)
        => variables[n].reg # variables[m].reg

(* C2: while a binding is in the symbol table, the register that backs it  *)
(* is marked in use: it is freed only when the owning scope exits and      *)
(* takes the binding with it.                                              *)
C2_BoundRegisterInUse ==
  error = "none" =>
    \A n \in Names :
      (IsRegister(variables[n]) /\ variables[n].reg \in GenericSet)
        => registers[variables[n].reg]

(* C3: after the plain assignment x = e to a declared let x, the register  *)
(* bound to x is the register the emitted code wrote the value of e into.  *)
C3_AssignmentWritesBinding ==
  (error = "none" /\ IsPlainAssignment /\ IsRegister(last.variables[Target]))
    => /\ IsRegister(variables[Target])
       /\ assembly # <<>>
       /\ Written(assembly[Len(assembly)]) = variables[Target].reg

(* C4: after let r = f(a1, ..., an), r is bound to a register and the      *)
(* emitted code loads [SP + 1] into that register after the CALL.          *)
C4_CallResultBound ==
  (error = "none" /\ IsLet /\ Assigned.type = "CallExpression"
     /\ last.variables[Target].type = "none")
    => /\ IsRegister(variables[Target])
       /\ \E i, j \in DOMAIN assembly :
            /\ i < j
            /\ assembly[i].op = "CALL"
            /\ assembly[j] = Instr("LOAD", <<STACK_POINTER_REGISTER,
                                             variables[Target].reg, "1">>)

(* C7: let x in a nested scope, while x is bound in an enclosing scope,    *)
(* creates a separate binding with a register of its own, tagged with the  *)
(* inner scope.                                                            *)
C7_ShadowingCreatesBinding ==
  (error = "none" /\ IsLet /\ IsRegister(last.variables[Target])
     /\ last.variables[Target].scope # last.scope)
    => /\ IsRegister(variables[Target])
       /\ variables[Target].scope = last.scope
       /\ variables[Target].reg # last.variables[Target].reg

(* C8: lowering a + or - of one identifier and one literal, in either      *)
(* order, writes the identifier's register only when the result is         *)
(* assigned back to that identifier.                                       *)
C8_OperandRegisterPreserved ==
  (error = "none" /\ (IsLet \/ IsPlainAssignment)
     /\ Assigned.type = "BinaryExpression")
    => \A m \in Names :
         (/\ {Assigned.left, Assigned.right} = {Id(m), Lit(1)}
          /\ m # Target
          /\ IsRegister(last.variables[m]))
           => \A i \in DOMAIN assembly :
                Written(assembly[i]) # last.variables[m].reg

(* C10: lowering a complete statement leaves no temporary allocated: the   *)
(* registers in use afterwards are those in use before plus the registers  *)
(* of the bindings the statement added.                                    *)
C10_NoTemporaryLeft ==
  (error = "none" /\ StatementDone)
    => InUse(registers) = InUse(last.registers) \cup (NewBindings \cap GenericSet)

(* C5: every form of array access addresses startAddress + i: the stores  *)
(* of the initialiser, reads and writes with a literal, identifier or      *)
(* expression index, and the element load of for-of.                       *)
C5_AccessAddressesElement ==
  error = "none" =>
    \A iv \in IndexValues :
      LET touched == Accesses(assembly, 1, RegistersAtStart(iv))
      IN  /\ (IsLet /\ Assigned.type = "ArrayExpression")
               => touched = [k \in 1..Len(Assigned.elements) |->
                               variables[Target].value + k - 1]
          /\ (/\ IsPlainAssignment
              /\ Assigned.type = "MemberExpression"
              /\ IsRegister(last.variables["y"]))
               => touched = <<last.variables[Assigned.object].value
                                + Eval(Assigned.property, iv)>>
          /\ (IsMemberStore /\ IsRegister(last.variables["y"]))
               => touched = <<last.variables[last.node.expression.left.object].value
                                + Eval(last.node.expression.left.property, iv)>>
          /\ last.handler = "ForOfStatement"
               => touched = <<last.variables[last.node.right].value + 0>>

(* C6: once a name has been declared const, every later attempt to bind    *)
(* it fails, also after the scope of the const has exited.  (The failure   *)
(* is DuplicateBinding; any failure is accepted here.)                     *)
C6_ConstNameReserved ==
  (last.handler = "VariableDeclaration" /\ last.node.id \in last.constNames)
    => error # "none"

(* C9: continue inside a do-while jumps to the condition test, the start   *)
(* label of the loop.                                                      *)
C9_DoWhileContinueTarget ==
  (error = "none" /\ last.handler = "ContinueStatement" /\ LoopFrames # {}
     /\ InnermostLoop.kind = "doWhile")
    => assembly = <<Instr("JUMP", <<InnermostLoop.labels[1]>>)>>

(* the register bindings of the scope that the call of exitScope lowered   *)
(* last has exited                                                         *)
ExitedBindings ==
  {n \in Names : IsRegister(last.variables[n]) /\ last.variables[n].scope = last.scope}

(* C11: when a scope exits, every register bound to a variable declared in *)
(* that scope is free and its binding is removed, so the registers         *)
(* acquired for the variables of the scope can be acquired again: the      *)
(* registers in use are those in use before, less the scope's.             *)
C11_ScopeExitFreesRegisters ==
  (error = "none" /\ last.handler = "exitScope")
    => /\ \A n \in ExitedBindings :
            /\ ~registers[last.variables[n].reg]
            /\ variables[n].type = "none"
       /\ InUse(registers) =
            InUse(last.registers) \ {last.variables[n].reg : n \in ExitedBindings}

(* a scope entered, two variables given registers in it, the scope exited  *)
C11_Witness ==
  /\ error = "none" /\ last.handler = "exitScope" /\ last.scope = 1
  /\ Cardinality(ExitedBindings) = 2
  /\ InUse(registers) = {}

(* C12: exitScope called while only the base scope is on the scope stack   *)
(* fails, and the base scope is never popped.  (The failure is             *)
(* NoActiveScope; any failure is accepted here.)                           *)
C12_BaseScopeKept ==
  /\ scopeStack # <<>>
  /\ (last.handler = "exitScope" /\ last.scope = 0) => error # "none"

(* C13: declaring a name that is already bound in the current scope fails  *)
(* for every binding kind, register variable, array, memory variable and   *)
(* const, and leaves the existing binding unchanged.  (The failure is      *)
(* DuplicateBinding; any failure is accepted here.)                        *)
C13_DuplicateDeclarationFails ==
  (/\ last.handler \in {"set", "setConst", "setArray", "setMemory"}
   /\ last.variables[last.node.key].type # "none"
   /\ last.variables[last.node.key].scope = last.scope)
    => /\ error # "none"
       /\ variables[last.node.key] = last.variables[last.node.key]

(* the number of cells the allocating call lowered last has asked for, and *)
(* the bump pointer it started from                                        *)
Cells == IF last.handler = "setArray" THEN last.node.length ELSE 1

Pointer == IF error = "none" THEN nextMemoryAddress - Cells ELSE nextMemoryAddress

(* C14: an allocation of n cells at bump pointer p succeeds whenever all   *)
(* its cells p .. p+n-1 lie in the data region 0 .. SP_START-1, and fails  *)
(* only when a cell would fall in the stack region.                        *)
C14_DataRegionAllocatable ==
  (/\ last.handler \in {"setArray", "setMemory"}
   /\ last.variables[last.node.key].type = "none")
    => (error = "none" <=> Pointer + Cells - 1 <= SP_START - 1)

(* the array the call of setArray lowered last has allocated *)
Allocated == variables[last.node.key]

BaseOffsetFromStart == Allocated.base - Allocated.value

ReferencedAbsent ==
  last.handler = "get" /\ last.variables[last.node.key].type = "none"

(* C16: referencing a name that was declared const in a scope that has     *)
(* since exited fails with UnknownIdentifier and acquires no register,     *)
(* whereas referencing a name that was never declared and never a const    *)
(* acquires a fresh register.                                              *)
C16_OutOfScopeConstUnknown ==
  ReferencedAbsent
    => IF last.node.key \in last.constNames
       THEN error = "UnknownIdentifier" /\ registers = last.registers
       ELSE /\ error = "none"
            /\ last.reg \in GenericSet
            /\ ~last.registers[last.reg]
            /\ InUse(registers) = InUse(last.registers) \cup {last.reg}

(* a const declared in an inner scope, the scope exited, the name referenced *)
C16_Witness ==
  /\ ReferencedAbsent
  /\ last.node.key \in last.constNames
  /\ last.scope = 0 /\ scopeStack = <<0>>
  /\ error = "UnknownIdentifier"

(* the statement lowered last assigns, with = or a compound operator, to a *)
(* name                                                                    *)
IsNameAssignment ==
  /\ last.handler = "ExpressionStatement"
  /\ last.node.expression.type = "AssignmentExpression"
  /\ last.node.expression.left.type = "Identifier"

IsMemberRead ==
  (IsLet \/ IsPlainAssignment) /\ Assigned.type = "MemberExpression"

(* the member expression of the access lowered last, and its array *)
Access == IF IsMemberStore THEN last.node.expression.left ELSE Assigned

AccessedArray == last.variables[Access.object]

(* the access has a literal index outside 0 .. length-1 *)
OutOfBounds ==
  /\ IsMemberStore \/ IsMemberRead
  /\ AccessedArray.type = "array"
  /\ Access.property.type = "Literal"
  /\ (Access.property.value < 0 \/ Access.property.value > AccessedArray.size - 1)

MemoryInstructions ==
  {i \in DOMAIN assembly :
     assembly[i].kind = "instruction" /\ assembly[i].op \in {"LOAD", "STORE"}}

BranchTarget(entry) ==
  IF entry.kind # "instruction" THEN ""
  ELSE IF entry.op \in {"JUMP", "BEQ", "BNE", "BGE", "BLT"} THEN entry.operands[1]
  ELSE IF entry.op = "BRANCH" THEN entry.operands[2]
  ELSE ""

(* the conditional branches of the code emitted last that go to the label *)
BranchesTo(label) ==
  {k \in DOMAIN assembly :
     assembly[k].kind = "instruction" /\ assembly[k].op # "JUMP"
     /\ BranchTarget(assembly[k]) = label}

(* C19: a lowered switch goes to the body of the first case whose test     *)
(* equals the discriminant: after the comparison with the test of case i   *)
(* a conditional branch goes to the label of case i, the comparisons being *)
(* in source order, and after all of them a jump goes to the label of the  *)
(* default case, or to the after-label when there is none; the case labels *)
(* are laid out in source order with nothing between the bodies, and break *)
(* jumps to the after-label.                                               *)
C19_SwitchDispatch ==
  error = "none" =>
    /\ last.handler = "SwitchStatement" =>
         LET tests == last.node.tests
             key == TopFrame.labels[1]
         IN  /\ \A i \in DOMAIN tests :
                  tests[i].type # "none" => BranchesTo(CaseLabel(key, i - 1)) # {}
             /\ \A i, j \in DOMAIN tests :
                  (i < j /\ tests[i].type # "none" /\ tests[j].type # "none")
                    => \A a \in BranchesTo(CaseLabel(key, i - 1)),
                          b \in BranchesTo(CaseLabel(key, j - 1)) : a < b
             /\ assembly[Len(assembly)] =
                  Instr("JUMP", <<DefaultLabel(tests, key, TopFrame.labels[2])>>)
    /\ last.handler = "SwitchCase" =>
         assembly = <<LabelEntry(CaseLabel(TopFrame.labels[1],
                                           TopFrame.cases - TopFrame.pending - 1))>>
    /\ (last.handler = "BreakStatement" /\ TopFrame.kind = "switch") =>
         assembly = <<Instr("JUMP", <<TopFrame.labels[2]>>)>>


(* C20: no two label declarations emitted during one compilation have the  *)
(* same name.                                                              *)
C20_LabelsUnique ==
  \A i, j \in DOMAIN declaredLabels :
    declaredLabels[i] = declaredLabels[j] => i = j

(* C21: a comparison is lowered to one BRANCH whose condition is one of    *)
(* ==, !=, >=, < (a <= b as b >= a, a > b as b < a, the others unchanged)  *)
(* and which is taken exactly when the source comparison is true.          *)
C21_ComparisonLowering ==
  IsComparisonTest =>
    \A xv, yv \in TestValues :
      LET bs == Branches(assembly, 1, RegistersHolding(xv, yv), Flags(0, 0))
          test == last.node.test
      IN  /\ Len(bs) = 1
          /\ bs[1].condition \in {"==", "!=", ">=", "<"}
          /\ bs[1].condition =
               (CASE test.operator = "<=" -> ">="
                  [] test.operator = ">" -> "<"
                  [] test.operator = "===" -> "=="
                  [] test.operator = "!==" -> "!="
                  [] OTHER -> test.operator)
          /\ bs[1].taken = Holds(test.operator, OperandValue(test.left, xv, yv),
                                 OperandValue(test.right, xv, yv))

C21_Witness ==
  /\ IsComparisonTest
  /\ last.node.test.operator = "<="
  /\ last.node.test.left.type = "Identifier"
  /\ last.node.test.right.type = "Identifier"


(* the labels of the statements that enclose frame i of the open handlers *)
EnclosingLabels(i) ==
  UNION {{frames[j].labels[k] : k \in DOMAIN frames[j].labels} : j \in 1..(i - 1)}

JumpTargets ==
  {assembly[k].operands[1] :
     k \in {n \in DOMAIN assembly : assembly[n].op \in {"JUMP", "BRANCH"}}}

(* a statement was lowered inside the try block or the catch body of frame i *)
LoweredInside(i) ==
  /\ i = Len(frames)
  /\ frames[i].kind \in {"try", "catch"}
  /\ last.handler \in {"BreakStatement", "ThrowStatement", "VariableDeclaration"}

(* C22: a try statement with a finally block is not left from its try      *)
(* block or its catch body without running the finally block: no jump      *)
(* lowered there targets a label of an enclosing statement.                *)
C22_FinallyAlwaysRuns ==
  \A i \in DOMAIN frames :
    (LoweredInside(i) /\ frames[i].test.finalizer) =>
      JumpTargets \cap EnclosingLabels(i) = {}


(* the catch labels of the try statements whose try block is open *)
CatchTargets ==
  LET open == SelectSeq(frames, LAMBDA f : f.kind = "try" /\ f.test.handler)
  IN  [i \in DOMAIN open |-> open[i].labels[1]]

ThrownOutsideTryBlock ==
  /\ error = "none"
  /\ last.handler = "ThrowStatement"
  /\ frames # <<>>
  /\ TopFrame.kind \in {"catch", "finally"}

(* C23: the catch label of a try statement is on the catch-target stack    *)
(* only while its try block is lowered; a throw in its catch or finally    *)
(* block jumps to the next enclosing catch label, or halts when there is   *)
(* none, and never to its own catch label.                                 *)
C23_CatchLabelOnlyInTryBlock ==
  error = "none" =>
    /\ errorHandlerStack = CatchTargets
    /\ ThrownOutsideTryBlock =>
         /\ TopFrame.labels[1] \notin JumpTargets
         /\ IF errorHandlerStack = <<>>
            THEN assembly = <<Instr("HALT", <<>>)>>
            ELSE JumpTargets = {Top(errorHandlerStack)}

C23_Witness ==
  /\ ThrownOutsideTryBlock
  /\ TopFrame.kind = "catch"
  /\ errorHandlerStack # <<>>


(* the register holding the value of a thrown literal or variable when the *)
(* code lowered last has run                                               *)
ThrownRegister ==
  IF last.node.argument.type = "Identifier"
  THEN variables[last.node.argument.name].reg
  ELSE assembly[1].operands[1]

(* a throw of a literal or of a declared variable was lowered last *)
ThrowLowered ==
  /\ error = "none"
  /\ last.handler = "ThrowStatement"
  /\ last.node.argument.type = "Identifier" =>
       IsRegister(variables[last.node.argument.name])

(* C24: a throw lowered with an empty catch-target stack emits only HALT;  *)
(* otherwise it emits the store of the thrown value to [SP + 1] and then   *)
(* the jump to the catch label on top of the stack.                        *)
C24_ThrowLowering ==
  ThrowLowered =>
    IF errorHandlerStack = <<>>
    THEN assembly = <<Instr("HALT", <<>>)>>
    ELSE LET n == Len(assembly)
         IN  /\ n >= 2
             /\ assembly[n - 1] =
                  Instr("STORE", <<STACK_POINTER_REGISTER, ThrownRegister, "1">>)
             /\ assembly[n] = Instr("JUMP", <<Top(errorHandlerStack)>>)
             /\ \A k \in 1..(n - 2) :
                  /\ assembly[k].op \notin {"STORE", "JUMP", "HALT"}
                  /\ Written(assembly[k]) = ThrownRegister
             /\ last.node.argument.type = "Literal" =>
                  assembly[1] = Instr("LDI", <<ThrownRegister,
                                               ToString(last.node.argument.value)>>)

C24_Witness == ThrowLowered /\ errorHandlerStack # <<>>


Ret == Instr("RET", <<>>)

(* the prologue of a function declaration was lowered last *)
FunctionOpened == error = "none" /\ last.handler = "FunctionDeclaration"

(* this step lowers the epilogue of the innermost open function *)
FunctionClosed == error' = "none" /\ last'.handler = "FunctionDeclarationEnd"

(* C25: a function declaration emits the jump to its after-label before    *)
(* its start-label; a return statement ends with RET; and when the body    *)
(* has no return statement of its own the code between the body and the    *)
(* after-label is a RET, so the after-label is not reached by falling      *)
(* through.                                                                *)
C25_FunctionBodyFencedOff ==
  /\ [](FunctionOpened =>
          /\ assembly[1] = Instr("JUMP", <<TopFrame.labels[2]>>)
          /\ assembly[2] = LabelEntry(TopFrame.labels[1]))
  /\ []((error = "none" /\ last.handler = "ReturnStatement") =>
          assembly[Len(assembly)] = Ret)
  /\ [][FunctionClosed =>
          /\ assembly'[Len(assembly')] = LabelEntry(TopFrame.labels[2])
          /\ TopFrame.pending = 0 =>
               (Len(assembly') >= 2 /\ assembly'[Len(assembly') - 1] = Ret)]_vars

C25_Witness ==
  /\ error = "none"
  /\ last.handler = "FunctionDeclarationEnd"
  /\ Len(assembly) = 2
  /\ assembly[1] = Ret


(* the open frames of the given kinds, innermost last *)
Open(kinds) == {i \in DOMAIN frames : frames[i].kind \in kinds}

Innermost(kinds) ==
  frames[CHOOSE i \in Open(kinds) : \A j \in Open(kinds) : j <= i]

(* the after-label of a loop or switch and the continue target of a loop:  *)
(* the start-label of a while, the update-label of a for, for-in, for-of   *)
AfterLabel(frame) ==
  IF frame.kind = "switch" THEN frame.labels[2] ELSE frame.labels[3]

ContinueLabel(frame) ==
  IF frame.kind = "while" THEN frame.labels[1] ELSE frame.labels[2]

Breakable == LoopKinds \cup {"for", "switch"}

Continuable == {"while", "for", "forIn", "forOf"}

BreakLowered ==
  error = "none" /\ last.handler = "BreakStatement" /\ Open(Breakable) # {}

ContinueLowered ==
  /\ error = "none"
  /\ last.handler = "ContinueStatement"
  /\ Open(LoopKinds \cup {"for"}) # {}
  /\ Innermost(LoopKinds \cup {"for"}).kind \in Continuable

(* C26: in nested loops and switches a break jumps to the after-label of   *)
(* the innermost enclosing loop or switch and a continue to the continue   *)
(* target of the innermost enclosing loop.                                 *)
C26_BreakContinueTargets ==
  /\ BreakLowered =>
       assembly = <<Instr("JUMP", <<AfterLabel(Innermost(Breakable))>>)>>
  /\ ContinueLowered =>
       assembly = <<Instr("JUMP", <<ContinueLabel(Innermost(LoopKinds \cup {"for"}))>>)>>

C26_Witness ==
  /\ ContinueLowered
  /\ Len(frames) = 2
  /\ frames[1].kind = "for"
  /\ frames[2].kind = "switch"

(* a break, continue or throw was lowered inside a function body *)
InnermostFunction ==
  CHOOSE i \in Open({"function"}) : \A j \in Open({"function"}) : j <= i

JumpLoweredInFunction ==
  /\ error = "none"
  /\ last.handler \in {"BreakStatement", "ContinueStatement", "ThrowStatement"}
  /\ Open({"function"}) # {}

(* C27: a break, continue or throw lowered inside a function body does not *)
(* jump to a label of a statement that encloses the function declaration.  *)
C27_NoJumpOutOfFunction ==
  JumpLoweredInFunction =>
    JumpTargets \cap EnclosingLabels(InnermostFunction) = {}

(* the break and continue part alone *)
BreakContinueStayInFunction ==
  (JumpLoweredInFunction /\ last.handler # "ThrowStatement") =>
    JumpTargets \cap EnclosingLabels(InnermostFunction) = {}

(* C28: the parameter bindings of a function are scoped to its body: a     *)
(* parameter is bound to a binding of its own when the body opens, and     *)
(* when the declaration has been lowered the bindings and the registers    *)
(* in use are those from before the declaration.                           *)
C28_ParametersScopedToBody ==
  /\ (error = "none" /\ last.handler = "FunctionDeclaration") =>
       \A i \in DOMAIN last.node.params :
         LET p == last.node.params[i]
         IN  /\ variables[p].type = "register"
             /\ variables[p].scope = currentScope
             /\ last.variables[p].type = "register" =>
                   variables[p].reg # last.variables[p].reg
  /\ (error = "none" /\ last.handler = "FunctionDeclarationEnd") =>
       /\ variables = last.variables
       /\ registers = last.registers

(* ISA.ts toBinary and binaryToSignedDecimal.  A binary string is a        *)
(* sequence of the characters "0", "1" and "-"; parseInt(value, 10) is     *)
(* Number(value), and a value that is not a number is encoded as zeros,    *)
(* which is the encoding of Number's 0.                                    *)
RECURSIVE toString2(_)

toString2(num) ==
  IF num < 0 THEN <<"-">> \o toString2(-num)
  ELSE IF num < 2 THEN <<ToString(num)>>
  ELSE toString2(num \div 2) \o <<ToString(num % 2)>>

padStart(str, bits) ==
  IF Len(str) >= bits THEN str ELSE [i \in 1..(bits - Len(str)) |-> "0"] \o str

slice(str, bits) ==
  IF Len(str) <= bits THEN str ELSE SubSeq(str, Len(str) - bits + 1, Len(str))

toBinary(value, bits, signed) ==
  LET parsed == Number(value)
      num == IF signed /\ parsed < 0 THEN 2^bits + parsed ELSE parsed
  IN  slice(padStart(toString2(num), bits), bits)

(* parseInt(value, 2): the digits up to the first character that is none *)
RECURSIVE parseInt2(_, _, _)

parseInt2(value, i, acc) ==
  IF i > Len(value) \/ value[i] \notin {"0", "1"} THEN acc
  ELSE parseInt2(value, i + 1, 2 * acc + (IF value[i] = "1" THEN 1 ELSE 0))

binaryToSignedDecimal(value) ==
  LET decimal == IF value # <<>> /\ value[1] = "-"
                 THEN -parseInt2(value, 2, 0)
                 ELSE parseInt2(value, 1, 0)
  IN  IF value = <<>> \/ value[1] # "1" THEN decimal
      ELSE decimal - 2^Len(value)

(* the LOAD and STORE instructions of the assembly that carry an offset *)
OffsetAccesses ==
  {k \in DOMAIN assembly :
     /\ assembly[k].op \in {"LOAD", "STORE"}
     /\ Len(assembly[k].operands) = 3}

(* C29: every immediate offset emitted on a LOAD or STORE is representable *)
(* in the signed 4-bit offset field: decoding the encoded field gives the  *)
(* emitted offset.                                                         *)
C29_OffsetsRepresentable ==
  \A k \in OffsetAccesses :
    binaryToSignedDecimal(toBinary(assembly[k].operands[3], 4, TRUE))
      = Number(assembly[k].operands[3])

(* C30: every compilation starts from an all-free register file, an empty  *)
(* symbol table and const-name set, a scope stack holding only the base    *)
(* scope and the memory bump pointer 0, whatever was compiled before it.   *)
C30_CompilationStartsClean ==
  last.handler = "compile" =>
    /\ registers = [r \in GenericSet |-> FALSE]
    /\ variables = [n \in Names |-> Absent]
    /\ constNames = {}
    /\ scopeStack = <<0>>
    /\ currentScope = 0
    /\ nextMemoryAddress = 0

====
